---- MODULE Spec2Model ----
(***************************************************************************)
(* The multipart-upload orchestration of ObjectStorageS3                   *)
(* (ghga_service_chassis_lib/s3.py) over an S3 backend.                    *)
(*                                                                         *)
(* The backend is the single source of truth: buckets, objects and the     *)
(* multipart uploads with their parts.  The adapter keeps only its client  *)
(* handle.  Every Port call is one action that runs the whole method.      *)
(***************************************************************************)
EXTENDS Integers, Sequences, FiniteSets, TLC

\* ------------------------------------------------------------------ bounds
MaxUploads == 3        \* upload ids the backend hands out in one run
MaxPartNumber == 1     \* highest part number of the parts uploaded under Spec
MaxCheckParts == 3     \* highest part number of the parts uploaded under SpecCheck
MaxCheckSize == 2      \* largest part size uploaded under SpecCheck, in MiB
MaxSessionUploads == 1 \* uploads started in one run of SpecSession or SpecFault
MaxDeliveries == 2     \* messages delivered in one run of SpecPubSub
MaxIdLen == 4          \* length of the ids validated under SpecValidate, the
                       \* ones around 63 characters apart

\* -------------------------------------------------------- program constants
MAX_FILE_PART_NUMBER == 10000
DEFAULT_PART_SIZE == 16     \* in MiB

\* S3 ListParts answers with at most this many parts (MaxParts, when the
\* request names none); the rest comes with further requests.
ListPartsPage == 1000

\* ------------------------------------------------------------ input domains
None == "None"
ExistingBuckets == {"b1"}
ObjectIds == {"o1", "o2"}
Clients == {"c1", "c2"}
\* Ids the naming rules refuse (leading hyphen, leading dot).
MalformedBucketIds == {"-b"}
MalformedObjectIds == {".o"}
\* What is stored under an object id: the sizes of the pieces it was made of.
Contents == {<<1>>, <<2>>}
NonExistingBuckets == {"b9"}
BucketIds == ExistingBuckets \cup NonExistingBuckets
UploadIds == 1..MaxUploads
PartNumbers == {0} \cup (1..(MaxPartNumber + 1)) \cup {MAX_FILE_PART_NUMBER + 1}
BoundaryPartNumbers == {0, 1, MAX_FILE_PART_NUMBER, MAX_FILE_PART_NUMBER + 1}

VARIABLES
    client,     \* ObjectStorageS3._client: None or "open"
    resource,   \* ObjectStorageS3._resource: None or "open"
    standby,    \* a second ObjectStorageS3 on the same backend: its _client, _resource
    buckets,    \* backend: the ids of the existing buckets
    objects,    \* backend: [bucket, key] -> None or the object's content
    uploads,    \* backend: the multipart uploads by upload id, in creation order
    last,       \* the last call: its arguments and what the caller got back
    aborted,    \* history: the upload ids whose abort_multipart_upload returned normally
    pc,         \* where each concurrent caller of init_multipart_upload stands
    channel     \* pubsub: the AmqpTopic's schema, the consumer, the deliveries

vars ==
    <<client, resource, standby, buckets, objects, uploads, last, aborted, pc, channel>>
backend == <<buckets, objects, uploads>>

\* ---------------------------------------------------------------- helpers
\* The integers of S in ascending order.
SortedSeq(S) ==
    IF S = 1..Cardinality(S) THEN [i \in 1..Cardinality(S) |-> i]
    ELSE [i \in 1..Cardinality(S) |->
             CHOOSE x \in S : Cardinality({y \in S : y < x}) = i - 1]

SeqToSet(s) == {s[i] : i \in 1..Len(s)}

EmptyParts == <<>>

\* A caller of init_multipart_upload that is not inside the call.
Idle == [at |-> "idle", bucket_id |-> None, object_id |-> None, returned |-> <<>>]

\* What the caller of a Port method observes.
Call(op, upload_id, bucket_id, object_id) ==
    [op |-> op, upload_id |-> upload_id, bucket_id |-> bucket_id,
     object_id |-> object_id,
     anticipated |-> <<>>, args |-> <<>>,
     result |-> "ok", upload_ids |-> <<>>, returned |-> <<>>,
     reason |-> None, calls |-> <<>>]

\* ---------------------------------------------------------------- backend
ActiveUploadIds == {u \in 1..Len(uploads) : uploads[u].State = "active"}

\* S3 ListMultipartUploads(Bucket): the in-progress uploads of the bucket.
BackendListMultipartUploads(bucket_id) ==
    IF bucket_id \notin buckets
    THEN [error |-> <<"NoSuch", "Bucket">>, Uploads |-> <<>>]
    ELSE [error |-> <<>>,
          Uploads |-> LET ids == SortedSeq({u \in ActiveUploadIds :
                                             uploads[u].Bucket = bucket_id})
                      IN  [i \in 1..Len(ids) |->
                              [UploadId |-> ids[i], Key |-> uploads[ids[i]].Key]]]

\* The content fingerprint S3 returns for an uploaded part.
ETagOf(size) == <<"md5", size>>

\* S3 ListParts(Bucket, Key, UploadId): the parts in ascending part number,
\* the first ListPartsPage of them.
BackendListParts(bucket_id, object_id, upload_id) ==
    IF \/ upload_id \notin ActiveUploadIds
       \/ uploads[upload_id].Bucket # bucket_id
       \/ uploads[upload_id].Key # object_id
    THEN [error |-> <<"NoSuch", "Upload">>, Parts |-> <<>>]
    ELSE [error |-> <<>>,
          Parts |-> LET ps == uploads[upload_id].Parts
                        ns == SortedSeq(DOMAIN ps)
                        listed == IF Len(ns) > ListPartsPage
                                  THEN ListPartsPage ELSE Len(ns)
                    IN  [i \in 1..listed |->
                            [PartNumber |-> ns[i], Size |-> ps[ns[i]],
                             ETag |-> ETagOf(ps[ns[i]])]]]

\* S3 CreateMultipartUpload(Bucket, Key): a new upload with a fresh id.
BackendCreateMultipartUpload(bucket_id, object_id) ==
    Append(uploads, [State |-> "active", Bucket |-> bucket_id,
                     Key |-> object_id, Parts |-> EmptyParts])

\* S3 UploadPart through a presigned URL: stores or replaces the part.
BackendUploadPart(upload_id, part_number, size) ==
    [uploads EXCEPT ![upload_id].Parts = (part_number :> size) @@ @]

\* S3 AbortMultipartUpload: the upload and its parts are removed.
BackendAbortMultipartUpload(upload_id) ==
    [uploads EXCEPT ![upload_id].State = "aborted", ![upload_id].Parts = EmptyParts]

\* S3 CompleteMultipartUpload(Bucket, Key, UploadId, Parts): assembles the named
\* parts in the given order into the object; every named part must be a stored
\* part with the stored fingerprint, in ascending part number.
BackendCompleteError(upload_id, part_etags) ==
    LET ps == uploads[upload_id].Parts IN
    IF \E i \in 1..Len(part_etags) :
          \/ part_etags[i].PartNumber \notin DOMAIN ps
          \/ part_etags[i].ETag # ETagOf(ps[part_etags[i].PartNumber])
    THEN <<"Invalid", "Part">>
    ELSE IF \E i \in 1..(Len(part_etags) - 1) :
               part_etags[i].PartNumber >= part_etags[i + 1].PartNumber
    THEN <<"Invalid", "Part", "Order">>
    ELSE <<>>

AssembledContent(upload_id, part_etags) ==
    [i \in 1..Len(part_etags) |-> uploads[upload_id].Parts[part_etags[i].PartNumber]]

BackendCompleteMultipartUpload(upload_id) ==
    [uploads EXCEPT ![upload_id].State = "completed", ![upload_id].Parts = EmptyParts]

BackendPutObject(bucket_id, object_id, content) ==
    (<<bucket_id, object_id>> :> content) @@ objects

\* The keys of the objects of a bucket, and the objects without some keys.
ObjectsOf(bucket_id) == {p \in DOMAIN objects : p[1] = bucket_id}

\* Mutant: the objects of these names go in every bucket.
ObjectsWithoutNames(keys) ==
    [p \in {q \in DOMAIN objects : \A k \in keys : q[2] # k[2]} |-> objects[p]]

ObjectsWithout(keys) == [p \in (DOMAIN objects) \ keys |-> objects[p]]

\* S3 HeadObject: an error without a code unless bucket and object exist.
BackendHeadObjectError(bucket_id, object_id) ==
    IF bucket_id \in buckets /\ <<bucket_id, object_id>> \in DOMAIN objects
    THEN <<>> ELSE <<"404">>

\* S3 CreateBucket: refused for a bucket the caller owns already.
BackendCreateBucketError(bucket_id) ==
    IF bucket_id \in buckets
    THEN <<"Bucket", "Already", "Owned", "By", "You">> ELSE <<>>

\* S3 DeleteBucket: the bucket must exist and hold no object.
BackendDeleteBucketError(bucket_id, remaining) ==
    IF bucket_id \notin buckets THEN <<"NoSuch", "Bucket">>
    ELSE IF \E p \in remaining : p[1] = bucket_id THEN <<"Bucket", "Not", "Empty">>
    ELSE <<>>

\* S3 DeleteObject: succeeds whether or not the key exists.
BackendDeleteObjectError(bucket_id, object_id) ==
    IF bucket_id \notin buckets THEN <<"NoSuch", "Bucket">> ELSE <<>>

\* S3 copy: source bucket and key and destination bucket must exist.
BackendCopyError(source_bucket_id, source_object_id, dest_bucket_id) ==
    IF source_bucket_id \notin buckets \/ dest_bucket_id \notin buckets
    THEN <<"NoSuch", "Bucket">>
    ELSE IF <<source_bucket_id, source_object_id>> \notin DOMAIN objects
    THEN <<"NoSuch", "Key">>
    ELSE <<>>

\* ---------------------------------------------------------------- adapter
\* Strings are sequences of characters.
LowercaseLetters == {"a", "b", "o"}
UppercaseLetters == {"A"}
Digits == {"0", "1", "2", "9"}
Newline == "\n"

\* re.match("^[...]*$", s) for a character class: "$" matches at the end of
\* the string and also before a newline that ends the string.
MatchesClassToEnd(s, class) ==
    \A i \in 1..Len(s) : s[i] \in class \/ (i = Len(s) /\ s[i] = Newline)

\* re.match(".*[...]$", s): "." matches no newline.
MatchesClassAtEnd(s, class) ==
    \E j \in 1..Len(s) :
        /\ \A i \in 1..(j - 1) : s[i] # Newline
        /\ s[j] \in class
        /\ j = Len(s) \/ (j = Len(s) - 1 /\ s[Len(s)] = Newline)

\* re.match("^[...].*", s)
MatchesClassAtStart(s, class) == Len(s) > 0 /\ s[1] \in class

\* validate_bucket_id on a string: the reason of the error raised, or None.
validate_bucket_id_str(bucket_id) ==
    IF Len(bucket_id) \notin 3..63 THEN "length"
    ELSE IF ~MatchesClassToEnd(bucket_id, LowercaseLetters \cup Digits \cup {"-"})
    THEN "characters"
    ELSE IF bucket_id[1] = "-" \/ bucket_id[Len(bucket_id)] = "-" THEN "ends"
    ELSE None

\* validate_object_id on a string: the reason of the error raised, or None.
validate_object_id_str(object_id) ==
    IF Len(object_id) \notin 3..63 THEN "length"
    ELSE IF ~MatchesClassToEnd(object_id, LowercaseLetters \cup UppercaseLetters
                                            \cup Digits \cup {"-", "."})
    THEN "characters"
    ELSE IF \/ MatchesClassAtStart(object_id, {"-", "."})
            \/ MatchesClassAtEnd(object_id, {"-", "."})
    THEN "ends"
    ELSE None

\* How the ids of the state machine are spelt.
Spelling(id) ==
    CASE id = "b1" -> <<"b", "-", "1">>
      [] id = "b9" -> <<"b", "-", "9">>
      [] id = "-b" -> <<"-", "b", "b">>
      [] id = "o1" -> <<"o", ".", "1">>
      [] id = "o2" -> <<"o", ".", "2">>
      [] id = ".o" -> <<".", "o", "o">>

\* The naming rules applied to an id of the state machine.
validate_bucket_id(bucket_id) ==
    IF validate_bucket_id_str(Spelling(bucket_id)) # None
    THEN "BucketIdValidationError" ELSE None

validate_object_id(object_id) ==
    IF validate_object_id_str(Spelling(object_id)) # None
    THEN "ObjectIdValidationError" ELSE None

\* Whether the bucket is among the listed ones, or the error raised.
does_bucket_exist(bucket_id) ==
    IF client = None
    THEN [raise |-> "OutOfContextError", value |-> FALSE, calls |-> <<>>]
    ELSE IF validate_bucket_id(bucket_id) # None
    THEN [raise |-> validate_bucket_id(bucket_id), value |-> FALSE, calls |-> <<>>]
    ELSE [raise |-> None, value |-> bucket_id \in buckets,
          calls |-> <<"list_buckets">>]

\* Mutant: a missing bucket is not a reason to raise.
AssertBucketExistsLenient(bucket_id) == does_bucket_exist(bucket_id)

_assert_bucket_exists(bucket_id) ==
    LET exists == does_bucket_exist(bucket_id) IN
    IF exists.raise = None /\ ~exists.value
    THEN [exists EXCEPT !.raise = "BucketNotFoundError"]
    ELSE exists

\* Mutant: an existing bucket is not a reason to raise.
AssertBucketNotExistsLenient(bucket_id) == does_bucket_exist(bucket_id)

_assert_bucket_not_exists(bucket_id) ==
    LET exists == does_bucket_exist(bucket_id) IN
    IF exists.raise = None /\ exists.value
    THEN [exists EXCEPT !.raise = "BucketAlreadyExists"]
    ELSE exists

\* Whether HeadObject answers without an error, or the error raised.
does_object_exist(bucket_id, object_id) ==
    IF client = None
    THEN [raise |-> "OutOfContextError", value |-> FALSE, calls |-> <<>>]
    ELSE IF validate_bucket_id(bucket_id) # None
    THEN [raise |-> validate_bucket_id(bucket_id), value |-> FALSE, calls |-> <<>>]
    ELSE IF validate_object_id(object_id) # None
    THEN [raise |-> validate_object_id(object_id), value |-> FALSE, calls |-> <<>>]
    ELSE [raise |-> None,
          value |-> BackendHeadObjectError(bucket_id, object_id) = <<>>,
          calls |-> <<"head_object">>]

\* Mutant: the object is looked for without a look at the bucket.
AssertObjectExistsWithoutBucket(bucket_id, object_id) ==
    LET object == does_object_exist(bucket_id, object_id) IN
    IF object.raise = None /\ ~object.value
    THEN [object EXCEPT !.raise = "ObjectNotFoundError"]
    ELSE object

\* The bucket is looked for before the object.
_assert_object_exists(bucket_id, object_id) ==
    LET bucket == _assert_bucket_exists(bucket_id) IN
    IF bucket.raise # None THEN bucket
    ELSE LET object == does_object_exist(bucket_id, object_id)
             calls == bucket.calls \o object.calls
         IN  IF object.raise = None /\ ~object.value
             THEN [object EXCEPT !.raise = "ObjectNotFoundError", !.calls = calls]
             ELSE [object EXCEPT !.calls = calls]

\* Mutant: an existing object is not a reason to raise.
AssertObjectNotExistsLenient(bucket_id, object_id) ==
    LET bucket == _assert_bucket_exists(bucket_id) IN
    IF bucket.raise # None THEN bucket
    ELSE LET object == does_object_exist(bucket_id, object_id) IN
         [object EXCEPT !.calls = bucket.calls \o object.calls]

_assert_object_not_exists(bucket_id, object_id) ==
    LET bucket == _assert_bucket_exists(bucket_id) IN
    IF bucket.raise # None THEN bucket
    ELSE LET object == does_object_exist(bucket_id, object_id)
             calls == bucket.calls \o object.calls
         IN  IF object.raise = None /\ object.value
             THEN [object EXCEPT !.raise = "ObjectAlreadyExistsError", !.calls = calls]
             ELSE [object EXCEPT !.calls = calls]

\* _format_s3_error_code: the message around the code.
_format_s3_error_code(error_code) == <<"S3 error with code: '", error_code, "'">>

\* The message the translator gives the error: the formatted code for the
\* errors made by keyword, none for the others.
TranslatedMessage(error_code) ==
    IF error_code \in {<<"NoSuch", "Bucket">>, <<"Bucket", "Already", "Exists">>,
                       <<"NoSuch", "Key">>,
                       <<"Object", "Already", "In", "Active", "Tier", "Error">>,
                       <<"NoSuch", "Upload">>}
    THEN <<>> ELSE _format_s3_error_code(error_code)

\* Backend error codes are sequences of the words they are made of.
HasWord(error_code, word) == \E i \in 1..Len(error_code) : error_code[i] = word

\* Mutant: the object and key keywords are looked for before the bucket keyword.
TranslateObjectKeywordFirst(error_code, upload_id, bucket_id, object_id) ==
    IF error_code = <<"NoSuch", "Bucket">> THEN "BucketNotFoundError"
    ELSE IF error_code = <<"Bucket", "Already", "Exists">> THEN "BucketAlreadyExists"
    ELSE IF error_code = <<"NoSuch", "Key">> THEN "ObjectNotFoundError"
    ELSE IF error_code = <<"Object", "Already", "In", "Active", "Tier", "Error">>
         THEN "ObjectAlreadyExistsError"
    ELSE IF error_code = <<"NoSuch", "Upload">>
         THEN IF upload_id = <<>> \/ bucket_id = <<>> \/ object_id = <<>>
              THEN "ValueError"
              ELSE "MultiPartUploadNotFoundError"
    ELSE IF HasWord(error_code, "Object") \/ HasWord(error_code, "Key") THEN "ObjectError"
    ELSE IF HasWord(error_code, "Bucket") THEN "BucketError"
    ELSE "ObjectStorageDaoError"

\* The context arguments are <<>> where the caller hands none (None in the
\* source) and <<value>> otherwise.
_translate_s3_client_errors(error_code, upload_id, bucket_id, object_id) ==
    IF error_code = <<"NoSuch", "Bucket">> THEN "BucketNotFoundError"
    ELSE IF error_code = <<"Bucket", "Already", "Exists">> THEN "BucketAlreadyExists"
    ELSE IF error_code = <<"NoSuch", "Key">> THEN "ObjectNotFoundError"
    ELSE IF error_code = <<"Object", "Already", "In", "Active", "Tier", "Error">>
         THEN "ObjectAlreadyExistsError"
    ELSE IF error_code = <<"NoSuch", "Upload">>
         THEN IF upload_id = <<>> \/ bucket_id = <<>> \/ object_id = <<>>
              THEN "ValueError"
              ELSE "MultiPartUploadNotFoundError"
    ELSE IF HasWord(error_code, "Bucket") THEN "BucketError"
    ELSE IF HasWord(error_code, "Object") \/ HasWord(error_code, "Key") THEN "ObjectError"
    ELSE "ObjectStorageDaoError"

\* Mutant: the uploads of the whole bucket, the key filter forgotten.
ListWithoutKeyFilter(bucket_id, object_id) ==
    LET uploads_info == BackendListMultipartUploads(bucket_id) IN
    IF uploads_info.error # <<>>
    THEN [raise |-> _translate_s3_client_errors(uploads_info.error, <<>>,
                                               <<bucket_id>>, <<object_id>>),
          upload_ids |-> <<>>]
    ELSE [raise |-> None,
          upload_ids |-> [i \in 1..Len(uploads_info.Uploads) |->
                             uploads_info.Uploads[i].UploadId]]

\* The ids of the active uploads of the object, or the error raised.
_list_mulitpart_upload_for_object(bucket_id, object_id) ==
    IF client = None THEN [raise |-> "OutOfContextError", upload_ids |-> <<>>]
    ELSE LET uploads_info == BackendListMultipartUploads(bucket_id) IN
         IF uploads_info.error # <<>>
         THEN [raise |-> _translate_s3_client_errors(uploads_info.error, <<>>,
                                               <<bucket_id>>, <<object_id>>),
               upload_ids |-> <<>>]
         ELSE LET of_object == SelectSeq(uploads_info.Uploads,
                                         LAMBDA upload : upload.Key = object_id)
              IN  [raise |-> None,
                   upload_ids |-> [i \in 1..Len(of_object) |-> of_object[i].UploadId]]

\* Mutant: an existing object is taken for an upload in progress.
AssertNoUploadNorObject(bucket_id, object_id) ==
    LET listed == _list_mulitpart_upload_for_object(bucket_id, object_id) IN
    IF listed.raise # None THEN listed.raise
    ELSE IF Len(listed.upload_ids) > 0 \/ <<bucket_id, object_id>> \in DOMAIN objects
    THEN "MultiPartUploadAlreadyExistsError"
    ELSE None

\* Mutant: one active upload is let through.
AssertNoUploadOffByOne(bucket_id, object_id) ==
    LET listed == _list_mulitpart_upload_for_object(bucket_id, object_id) IN
    IF listed.raise # None THEN listed.raise
    ELSE IF Len(listed.upload_ids) > 1 THEN "MultiPartUploadAlreadyExistsError"
    ELSE None

_assert_no_multipart_upload(bucket_id, object_id) ==
    LET listed == _list_mulitpart_upload_for_object(bucket_id, object_id) IN
    IF listed.raise # None THEN listed.raise
    ELSE IF Len(listed.upload_ids) > 0 THEN "MultiPartUploadAlreadyExistsError"
    ELSE None

\* Mutant: exclusiveness is violated by one active upload already.
ExistExclusiveOffByOne(upload_id, bucket_id, object_id, assert_exclusiveness) ==
    LET listed == _list_mulitpart_upload_for_object(bucket_id, object_id) IN
    IF listed.raise # None THEN listed
    ELSE IF assert_exclusiveness /\ Len(listed.upload_ids) > 0
    THEN [raise |-> "MultipleActiveUploadsError", upload_ids |-> listed.upload_ids]
    ELSE IF upload_id \notin SeqToSet(listed.upload_ids)
    THEN [raise |-> "MultiPartUploadNotFoundError", upload_ids |-> <<>>]
    ELSE [raise |-> None, upload_ids |-> <<>>]

\* Mutant: the upload id is not looked up among the listed ones.
ExistWithoutLookup(upload_id, bucket_id, object_id, assert_exclusiveness) ==
    LET listed == _list_mulitpart_upload_for_object(bucket_id, object_id) IN
    IF listed.raise # None THEN listed
    ELSE IF assert_exclusiveness /\ Len(listed.upload_ids) > 1
    THEN [raise |-> "MultipleActiveUploadsError", upload_ids |-> listed.upload_ids]
    ELSE [raise |-> None, upload_ids |-> <<>>]

\* Mutant: the upload is looked up before exclusiveness is checked.
ExistBeforeExclusiveness(upload_id, bucket_id, object_id, assert_exclusiveness) ==
    LET listed == _list_mulitpart_upload_for_object(bucket_id, object_id) IN
    IF listed.raise # None THEN listed
    ELSE IF upload_id \notin SeqToSet(listed.upload_ids)
    THEN [raise |-> "MultiPartUploadNotFoundError", upload_ids |-> <<>>]
    ELSE IF assert_exclusiveness /\ Len(listed.upload_ids) > 1
    THEN [raise |-> "MultipleActiveUploadsError", upload_ids |-> listed.upload_ids]
    ELSE [raise |-> None, upload_ids |-> <<>>]

_assert_multipart_upload_exist(upload_id, bucket_id, object_id, assert_exclusiveness) ==
    IF client = None THEN [raise |-> "OutOfContextError", upload_ids |-> <<>>]
    ELSE LET listed == _list_mulitpart_upload_for_object(bucket_id, object_id)
             n_uploads == Len(listed.upload_ids)
         IN  IF listed.raise # None THEN listed
             ELSE IF assert_exclusiveness /\ n_uploads > 1
             THEN [raise |-> "MultipleActiveUploadsError",
                   upload_ids |-> listed.upload_ids]
             ELSE IF upload_id \notin SeqToSet(listed.upload_ids)
             THEN [raise |-> "MultiPartUploadNotFoundError", upload_ids |-> <<>>]
             ELSE [raise |-> None, upload_ids |-> <<>>]

\* The part inventory of the upload, or the error raised.
_get_parts_info(upload_id, bucket_id, object_id) ==
    IF client = None
    THEN [raise |-> "OutOfContextError", upload_ids |-> <<>>, Parts |-> <<>>,
          calls |-> <<>>]
    ELSE LET exist == _assert_multipart_upload_exist(upload_id, bucket_id,
                                                     object_id, TRUE)
         IN  IF exist.raise # None
             THEN [raise |-> exist.raise, upload_ids |-> exist.upload_ids,
                   Parts |-> <<>>, calls |-> <<"list_multipart_uploads">>]
             ELSE LET listed == BackendListParts(bucket_id, object_id, upload_id) IN
                  [raise |-> IF listed.error # <<>>
                             THEN _translate_s3_client_errors(
                                      listed.error, <<upload_id>>, <<bucket_id>>,
                                      <<object_id>>)
                             ELSE None,
                   upload_ids |-> <<>>, Parts |-> listed.Parts,
                   calls |-> <<"list_multipart_uploads", "list_parts">>]

\* Mutant: _check_uploaded_parts comparing the interior parts with the first part only
\* up to the part before the last but one.
CheckSkippingLastInteriorPart(Parts, anticipated_part_quantity, anticipated_part_size) ==
    IF Len(Parts) = 0 THEN "Zero parts received."
    ELSE LET part_quantity == Len(Parts)
             first_part_size == Parts[1].Size
             last_part_size == Parts[part_quantity].Size
         IN
         IF /\ anticipated_part_quantity # <<>>
            /\ part_quantity # anticipated_part_quantity[1]
         THEN "Found a part quantity other than expected."
         ELSE IF /\ anticipated_part_size # <<>>
                 /\ anticipated_part_quantity # <<>>
                 /\ anticipated_part_quantity[1] > 1
                 /\ first_part_size # anticipated_part_size[1]
         THEN "The first part has a size other than expected."
         ELSE IF /\ anticipated_part_size # <<>>
                 /\ last_part_size > anticipated_part_size[1]
         THEN "The last part is larger than the anticipated size."
         ELSE IF last_part_size > first_part_size
         THEN "The last part is larger than the first part."
         ELSE IF \E i \in 2..(part_quantity - 2) : Parts[i].Size # first_part_size
         THEN "A part has a size different from the first part."
         ELSE None

\* Mutant: _check_uploaded_parts rejecting a part quantity only when it is below the
\* anticipated one.
CheckQuantityAtLeast(Parts, anticipated_part_quantity, anticipated_part_size) ==
    IF Len(Parts) = 0 THEN "Zero parts received."
    ELSE LET part_quantity == Len(Parts)
             first_part_size == Parts[1].Size
             last_part_size == Parts[part_quantity].Size
         IN
         IF /\ anticipated_part_quantity # <<>>
            /\ part_quantity < anticipated_part_quantity[1]
         THEN "Found a part quantity other than expected."
         ELSE IF /\ anticipated_part_size # <<>>
                 /\ anticipated_part_quantity # <<>>
                 /\ anticipated_part_quantity[1] > 1
                 /\ first_part_size # anticipated_part_size[1]
         THEN "The first part has a size other than expected."
         ELSE IF /\ anticipated_part_size # <<>>
                 /\ last_part_size > anticipated_part_size[1]
         THEN "The last part is larger than the anticipated size."
         ELSE IF last_part_size > first_part_size
         THEN "The last part is larger than the first part."
         ELSE IF \E i \in 2..(part_quantity - 1) : Parts[i].Size # first_part_size
         THEN "A part has a size different from the first part."
         ELSE None

\* The reason for which the part inventory is rejected, or None.
_check_uploaded_parts(Parts, anticipated_part_quantity, anticipated_part_size) ==
    IF Len(Parts) = 0 THEN "Zero parts received."
    ELSE LET part_quantity == Len(Parts)
             first_part_size == Parts[1].Size
             last_part_size == Parts[part_quantity].Size
         IN
         IF /\ anticipated_part_quantity # <<>>
            /\ part_quantity # anticipated_part_quantity[1]
         THEN "Found a part quantity other than expected."
         ELSE IF /\ anticipated_part_size # <<>>
                 /\ anticipated_part_quantity # <<>>
                 /\ anticipated_part_quantity[1] > 1
                 /\ first_part_size # anticipated_part_size[1]
         THEN "The first part has a size other than expected."
         ELSE IF /\ anticipated_part_size # <<>>
                 /\ last_part_size > anticipated_part_size[1]
         THEN "The last part is larger than the anticipated size."
         ELSE IF last_part_size > first_part_size
         THEN "The last part is larger than the first part."
         ELSE IF \E i \in 2..(part_quantity - 1) : Parts[i].Size # first_part_size
         THEN "A part has a size different from the first part."
         ELSE None

\* The text of the reason _check_uploaded_parts puts in the error, as the
\* pieces the f-strings join, or <<>>. Two texts name the anticipated quantity
\* where they speak of the anticipated size.
ConfirmErrorReason(Parts, anticipated_part_quantity, anticipated_part_size) ==
    IF Len(Parts) = 0 THEN <<"Zero parts received.">>
    ELSE LET part_quantity == Len(Parts)
             first_part_size == Parts[1].Size
             last_part_size == Parts[part_quantity].Size
             quantity == IF anticipated_part_quantity = <<>> THEN "None"
                         ELSE ToString(anticipated_part_quantity[1])
             differing == {i \in 2..(part_quantity - 1) : Parts[i].Size # first_part_size}
         IN
         IF /\ anticipated_part_quantity # <<>>
            /\ part_quantity # anticipated_part_quantity[1]
         THEN <<"Found ", ToString(part_quantity), " parts but expect", " ", quantity, ".">>
         ELSE IF /\ anticipated_part_size # <<>>
                 /\ anticipated_part_quantity # <<>>
                 /\ anticipated_part_quantity[1] > 1
                 /\ first_part_size # anticipated_part_size[1]
         THEN <<"The first part has a size of ", ToString(first_part_size), " bytes but",
                " expected ", quantity, ".">>
         ELSE IF /\ anticipated_part_size # <<>>
                 /\ last_part_size > anticipated_part_size[1]
         THEN <<"The last part has a size of ", ToString(last_part_size), " bytes which",
                " is larger than the anticipated size of", " ", quantity, ".">>
         ELSE IF last_part_size > first_part_size
         THEN <<"The last part has a size of ", ToString(last_part_size), " bytes which",
                " is larger than the size of the first part that was", " ",
                ToString(first_part_size), ".">>
         ELSE IF differing # {}
         THEN LET i == CHOOSE j \in differing : \A k \in differing : j <= k IN
              <<"Part number ", ToString(Parts[i].PartNumber), " has a size of", " ",
                ToString(Parts[i].Size), " bytes which is different than the size of the",
                " first part ", ToString(first_part_size), ".">>
         ELSE <<>>

\* ----------------------------------------------------------------- pubsub
\* A message as the consumer sees it: whether its body is JSON, whether the
\* payload conforms to the schema of the topic, and what exec_on_message
\* does with the payload: it returns ("ok") or raises the exception named.
ExecOutcomes == {"ok", "MaxAttemptsReached", "ValueError", "KeyError"}

Messages ==
    {m \in [json : BOOLEAN, valid : BOOLEAN, outcome : ExecOutcomes] :
        ~m.json => ~m.valid}

\* validate_message with raise_on_exception False.
validate_message(message, json_schema) == message.valid

basic_ack == [method |-> "basic_ack", requeue |-> <<>>]

basic_nack(requeue) == [method |-> "basic_nack", requeue |-> <<requeue>>]

stop_consuming == [method |-> "stop_consuming", requeue |-> <<>>]

exec_on_message == [method |-> "exec_on_message", requeue |-> <<>>]

\* callback_factory(exec_on_message, json_schema, stop_on_consume): what the
\* callback calls for a message, in order, and the exception it lets out.
callback_factory(json_schema, stop_on_consume, message) ==
    LET stop == IF stop_on_consume THEN <<stop_consuming>> ELSE <<>>
        invalid == IF json_schema # <<>> /\ ~validate_message(message, json_schema)
                   THEN <<basic_nack(FALSE)>> ELSE <<>>
    IN
    IF ~message.json
    THEN [calls |-> stop, raise |-> "JSONDecodeError"]
    ELSE IF message.outcome = "ok"
    THEN [calls |-> stop \o invalid \o <<exec_on_message, basic_ack>>, raise |-> None]
    ELSE IF message.outcome \in {"MaxAttemptsReached", "ValueError"}
    THEN [calls |-> stop \o invalid \o <<exec_on_message, basic_nack(FALSE)>>,
          raise |-> None]
    ELSE [calls |-> stop \o invalid \o <<exec_on_message>>, raise |-> message.outcome]

IsSettlement(call) == call.method \in {"basic_ack", "basic_nack"}

\* An AmqpTopic after __init__ with the json_schema given, not subscribed.
AmqpTopic(json_schema) ==
    [json_schema |-> json_schema, stop_on_consume |-> FALSE, consuming |-> FALSE,
     delivered |-> <<>>]

Unsubscribed == AmqpTopic(<<>>)

\* ------------------------------------------------------------------ state
\* An adapter after __init__: no client, no resource.
ConstructedAdapter == [client |-> None, resource |-> None]

\* The state the s3 fixture hands to a test: the existing buckets are there,
\* no upload is in progress, and the adapter has been entered.
Init ==
    /\ client = "open"
    /\ resource = "open"
    /\ standby = ConstructedAdapter
    /\ channel = Unsubscribed
    /\ buckets = ExistingBuckets
    /\ objects = <<>>
    /\ uploads = <<>>
    /\ last = Call("__enter__", 0, None, None)
    /\ aborted = {}
    /\ pc = [c \in Clients |-> Idle]

\* The state after construction: no client, no resource; the backend is the
\* one the fixture has populated.
Constructed ==
    /\ client = None
    /\ resource = None
    /\ standby = ConstructedAdapter
    /\ channel = Unsubscribed
    /\ buckets = ExistingBuckets
    /\ objects = <<>>
    /\ uploads = <<>>
    /\ last = Call("__init__", 0, None, None)
    /\ aborted = {}
    /\ pc = [c \in Clients |-> Idle]

\* The state get_initialized_upload returns in: one empty upload for the
\* fixture's object, which may or may not exist already.
InitializedUpload ==
    /\ client = "open"
    /\ resource = "open"
    /\ standby = ConstructedAdapter
    /\ channel = Unsubscribed
    /\ buckets = ExistingBuckets
    /\ objects \in {<<>>, <<"b1", "o1">> :> <<DEFAULT_PART_SIZE>>}
    /\ uploads = <<[State |-> "active", Bucket |-> "b1", Key |-> "o1",
                    Parts |-> EmptyParts]>>
    /\ last = [Call("init_multipart_upload", 0, "b1", "o1") EXCEPT
                  !.returned = <<1>>,
                  !.calls = <<"list_multipart_uploads", "create_multipart_upload">>]
    /\ aborted = {}
    /\ pc = [c \in Clients |-> Idle]

Raised(call, error, calls) == [call EXCEPT !.result = error, !.calls = calls]

\* ---------------------------------------------------------------- actions
\* The caller goes on with the other adapter: the two change places.
Switch ==
    /\ client' = standby.client
    /\ resource' = standby.resource
    /\ standby' = [client |-> client, resource |-> resource]
    /\ UNCHANGED <<pc, channel, backend, last, aborted>>

Enter ==
    /\ client' = "open"
    /\ resource' = "open"
    /\ last' = Call("__enter__", 0, None, None)
    /\ UNCHANGED <<pc, standby, channel, backend, aborted>>

\* __exit__ drops the client and keeps the resource.
Exit ==
    /\ client' = None
    /\ last' = Call("__exit__", 0, None, None)
    /\ UNCHANGED <<pc, resource, standby, channel, backend, aborted>>

init_multipart_upload(bucket_id, object_id) ==
    LET call == Call("init_multipart_upload", 0, bucket_id, object_id) IN
    IF client = None
    THEN /\ last' = Raised(call, "OutOfContextError", <<>>)
         /\ UNCHANGED <<pc, client, resource, standby, channel, backend, aborted>>
    ELSE LET no_upload == _assert_no_multipart_upload(bucket_id, object_id) IN
         IF no_upload # None
         THEN /\ last' = Raised(call, no_upload, <<"list_multipart_uploads">>)
              /\ UNCHANGED <<pc, client, resource, standby, channel, backend, aborted>>
         ELSE /\ Len(uploads) < MaxUploads
              /\ uploads' = BackendCreateMultipartUpload(bucket_id, object_id)
              /\ last' = [call EXCEPT
                             !.returned = <<Len(uploads) + 1>>,
                             !.calls = <<"list_multipart_uploads",
                                         "create_multipart_upload">>]
              /\ UNCHANGED <<pc, client, resource, standby, channel, buckets, objects, aborted>>

\* init_multipart_upload by one of several concurrent callers, up to the
\* answer of _assert_no_multipart_upload: the caller learns that an upload is
\* active and the call ends, or it goes on to create its upload.
init_check(c, bucket_id, object_id) ==
    LET call == Call("init_multipart_upload", 0, bucket_id, object_id)
        at(where) == [at |-> where, bucket_id |-> bucket_id,
                      object_id |-> object_id, returned |-> <<>>]
    IN
    /\ pc[c].at # "checked"
    /\ IF client = None
       THEN /\ last' = Raised(call, "OutOfContextError", <<>>)
            /\ pc' = [pc EXCEPT ![c] = at("raised")]
       ELSE LET no_upload == _assert_no_multipart_upload(bucket_id, object_id) IN
            IF no_upload # None
            THEN /\ last' = Raised(call, no_upload, <<"list_multipart_uploads">>)
                 /\ pc' = [pc EXCEPT ![c] = at("raised")]
            ELSE /\ pc' = [pc EXCEPT ![c] = at("checked")]
                 /\ UNCHANGED last
    /\ UNCHANGED <<client, resource, standby, channel, backend, aborted>>

\* Mutant: the caller looks for an active upload again when it creates its own.
InitCreateRechecking(c) ==
    LET call == Call("init_multipart_upload", 0, pc[c].bucket_id, pc[c].object_id)
        no_upload == _assert_no_multipart_upload(pc[c].bucket_id, pc[c].object_id)
    IN
    /\ pc[c].at = "checked"
    /\ Len(uploads) < MaxUploads
    /\ IF no_upload # None
       THEN /\ last' = Raised(call, no_upload, <<"list_multipart_uploads">>)
            /\ pc' = [pc EXCEPT ![c].at = "raised"]
            /\ UNCHANGED uploads
       ELSE /\ uploads' = BackendCreateMultipartUpload(pc[c].bucket_id, pc[c].object_id)
            /\ pc' = [pc EXCEPT ![c].at = "returned",
                                ![c].returned = <<Len(uploads) + 1>>]
            /\ last' = [call EXCEPT
                           !.returned = <<Len(uploads) + 1>>,
                           !.calls = <<"list_multipart_uploads",
                                       "create_multipart_upload">>]
    /\ UNCHANGED <<client, resource, standby, channel, buckets, objects, aborted>>

\* The rest of init_multipart_upload for a caller that found no active
\* upload: the upload is created and its id returned.
init_create(c) ==
    LET call == Call("init_multipart_upload", 0, pc[c].bucket_id, pc[c].object_id) IN
    /\ pc[c].at = "checked"
    /\ Len(uploads) < MaxUploads
    /\ uploads' = BackendCreateMultipartUpload(pc[c].bucket_id, pc[c].object_id)
    /\ pc' = [pc EXCEPT ![c].at = "returned",
                        ![c].returned = <<Len(uploads) + 1>>]
    /\ last' = [call EXCEPT
                   !.returned = <<Len(uploads) + 1>>,
                   !.calls = <<"list_multipart_uploads", "create_multipart_upload">>]
    /\ UNCHANGED <<client, resource, standby, channel, buckets, objects, aborted>>

\* Mutant: the part number is looked at after the upload has been looked up.
PartUploadUrlLateValueError(call, upload_id, bucket_id, object_id, part_number) ==
    IF client = None THEN Raised(call, "OutOfContextError", <<>>)
    ELSE LET exist == _assert_multipart_upload_exist(upload_id, bucket_id,
                                                     object_id, TRUE)
         IN  IF exist.raise # None
             THEN [Raised(call, exist.raise, <<"list_multipart_uploads">>)
                      EXCEPT !.upload_ids = exist.upload_ids]
             ELSE IF ~(0 < part_number /\ part_number <= MAX_FILE_PART_NUMBER)
             THEN Raised(call, "ValueError", <<"list_multipart_uploads">>)
             ELSE [call EXCEPT
                      !.returned = <<[Bucket |-> bucket_id, Key |-> object_id,
                                      UploadId |-> upload_id,
                                      PartNumber |-> part_number]>>,
                      !.calls = <<"list_multipart_uploads",
                                  "generate_presigned_url">>]

\* What get_part_upload_url gives its caller; it changes nothing.
PartUploadUrl(call, upload_id, bucket_id, object_id, part_number) ==
    IF client = None THEN Raised(call, "OutOfContextError", <<>>)
    ELSE IF ~(0 < part_number /\ part_number <= MAX_FILE_PART_NUMBER)
    THEN Raised(call, "ValueError", <<>>)
    ELSE LET exist == _assert_multipart_upload_exist(upload_id, bucket_id,
                                                     object_id, TRUE)
         IN  IF exist.raise # None
             THEN [Raised(call, exist.raise, <<"list_multipart_uploads">>)
                      EXCEPT !.upload_ids = exist.upload_ids]
             ELSE [call EXCEPT
                      !.returned = <<[Bucket |-> bucket_id, Key |-> object_id,
                                      UploadId |-> upload_id,
                                      PartNumber |-> part_number]>>,
                      !.calls = <<"list_multipart_uploads",
                                  "generate_presigned_url">>]

get_part_upload_url(upload_id, bucket_id, object_id, part_number) ==
    /\ last' = PartUploadUrl(
                   Call("get_part_upload_url", upload_id, bucket_id, object_id),
                   upload_id, bucket_id, object_id, part_number)
    /\ UNCHANGED <<pc, client, resource, standby, channel, backend, aborted>>

\* The client side of a part upload: asks for the part's URL and PUTs the
\* content to it.
upload_part(upload_id, bucket_id, object_id, size, part_number) ==
    LET url == PartUploadUrl(
                   Call("upload_part", upload_id, bucket_id, object_id),
                   upload_id, bucket_id, object_id, part_number)
    IN  IF url.result # "ok"
        THEN /\ last' = url
             /\ UNCHANGED <<pc, client, resource, standby, channel, backend, aborted>>
        ELSE /\ uploads' = BackendUploadPart(upload_id, part_number, size)
             /\ last' = [url EXCEPT !.calls = Append(@, "upload_part")]
             /\ UNCHANGED <<pc, client, resource, standby, channel, buckets, objects, aborted>>

\* abort_multipart_upload with the uploads as the backend's abort leaves them.
AbortWith(upload_id, bucket_id, object_id, aborted_uploads) ==
    LET call == Call("abort_multipart_upload", upload_id, bucket_id, object_id) IN
    IF client = None
    THEN /\ last' = Raised(call, "OutOfContextError", <<>>)
         /\ UNCHANGED <<pc, client, resource, standby, channel, backend, aborted>>
    ELSE LET exist == _assert_multipart_upload_exist(upload_id, bucket_id,
                                                     object_id, FALSE)
         IN
         IF exist.raise # None
         THEN /\ last' = Raised(call, exist.raise, <<"list_multipart_uploads">>)
              /\ UNCHANGED <<pc, client, resource, standby, channel, backend, aborted>>
         ELSE /\ UNCHANGED <<pc, client, resource, standby, channel, buckets, objects>>
              /\ uploads' = aborted_uploads
              \* the verification queries the backend as the abort left it
              /\ LET parts_info == _get_parts_info(upload_id, bucket_id, object_id)'
                     calls == <<"list_multipart_uploads", "abort_multipart_upload">>
                                  \o parts_info.calls
                 IN  last' =
                         IF parts_info.raise = "MultiPartUploadNotFoundError"
                         THEN [call EXCEPT !.calls = calls]
                         ELSE IF parts_info.raise # None
                         THEN [Raised(call, parts_info.raise, calls)
                                  EXCEPT !.upload_ids = parts_info.upload_ids]
                         ELSE IF Len(parts_info.Parts) > 0
                         THEN Raised(call, "MultiPartUploadAbortError", calls)
                         ELSE [call EXCEPT !.calls = calls]
              /\ aborted' = IF last'.result = "ok" THEN aborted \cup {upload_id}
                             ELSE aborted

abort_multipart_upload(upload_id, bucket_id, object_id) ==
    AbortWith(upload_id, bucket_id, object_id,
              BackendAbortMultipartUpload(upload_id))

\* An abort during which a part upload was in progress: the backend answers
\* the abort, but the upload is still listed and parts of it remain (the case
\* the verification after the abort is there for).
abort_with_parts_remaining(upload_id, bucket_id, object_id) ==
    /\ upload_id \in ActiveUploadIds
    /\ uploads[upload_id].Bucket = bucket_id
    /\ uploads[upload_id].Key = object_id
    /\ uploads[upload_id].Parts # EmptyParts
    /\ AbortWith(upload_id, bucket_id, object_id, uploads)

\* Mutant: complete_multipart_upload sending the completion to the backend before it
\* looks at the outcome of the check.
CompleteBeforeChecked(call, parts_info, rejected) ==
    LET part_etags ==
            [i \in 1..Len(parts_info.Parts) |->
                [ETag |-> parts_info.Parts[i].ETag,
                 PartNumber |-> parts_info.Parts[i].PartNumber]]
        error == BackendCompleteError(call.upload_id, part_etags)
        calls == Append(parts_info.calls, "complete_multipart_upload")
    IN
    IF error # <<>>
    THEN /\ last' = Raised(call, _translate_s3_client_errors(
                                  error, <<call.upload_id>>, <<call.bucket_id>>,
                                  <<call.object_id>>), calls)
         /\ UNCHANGED <<pc, client, resource, standby, channel, backend, aborted>>
    ELSE /\ objects' = BackendPutObject(
                           call.bucket_id, call.object_id,
                           AssembledContent(call.upload_id, part_etags))
         /\ uploads' = BackendCompleteMultipartUpload(call.upload_id)
         /\ last' = IF rejected # None
                    THEN [Raised(call, "MultiPartUploadConfirmError", calls)
                             EXCEPT !.reason = rejected]
                    ELSE [call EXCEPT !.calls = calls]
         /\ UNCHANGED <<pc, client, resource, standby, channel, buckets, aborted>>

\* complete_multipart_upload once the part inventory has been fetched and
\* checked: a rejected inventory raises before anything is sent to the
\* backend, an accepted one is confirmed with the list of the parts' ETags.
CompleteChecked(call, parts_info, rejected) ==
    IF rejected # None
    THEN /\ last' = [Raised(call, "MultiPartUploadConfirmError", parts_info.calls)
                        EXCEPT !.reason = rejected]
         /\ UNCHANGED <<pc, client, resource, standby, channel, backend, aborted>>
    ELSE LET part_etags ==
                 [i \in 1..Len(parts_info.Parts) |->
                     [ETag |-> parts_info.Parts[i].ETag,
                      PartNumber |-> parts_info.Parts[i].PartNumber]]
             error == BackendCompleteError(call.upload_id, part_etags)
             calls == Append(parts_info.calls, "complete_multipart_upload")
         IN
         IF error # <<>>
         THEN /\ last' = Raised(call, _translate_s3_client_errors(
                                  error, <<call.upload_id>>, <<call.bucket_id>>,
                                  <<call.object_id>>), calls)
              /\ UNCHANGED <<pc, client, resource, standby, channel, backend, aborted>>
         ELSE /\ objects' = BackendPutObject(
                                call.bucket_id, call.object_id,
                                AssembledContent(call.upload_id, part_etags))
              /\ uploads' = BackendCompleteMultipartUpload(call.upload_id)
              /\ last' = [call EXCEPT !.calls = calls]
              /\ UNCHANGED <<pc, client, resource, standby, channel, buckets, aborted>>

complete_multipart_upload(upload_id, bucket_id, object_id, anticipated_part_quantity, anticipated_part_size) ==
    LET call == [Call("complete_multipart_upload", upload_id, bucket_id, object_id)
                    EXCEPT !.anticipated = <<anticipated_part_quantity,
                                             anticipated_part_size>>]
    IN
    IF client = None
    THEN /\ last' = Raised(call, "OutOfContextError", <<>>)
         /\ UNCHANGED <<pc, client, resource, standby, channel, backend, aborted>>
    ELSE LET parts_info == _get_parts_info(upload_id, bucket_id, object_id) IN
         IF parts_info.raise # None
         THEN /\ last' = [Raised(call, parts_info.raise, parts_info.calls)
                             EXCEPT !.upload_ids = parts_info.upload_ids]
              /\ UNCHANGED <<pc, client, resource, standby, channel, backend, aborted>>
         ELSE CompleteChecked(call, parts_info,
                              _check_uploaded_parts(parts_info.Parts,
                                                    anticipated_part_quantity,
                                                    anticipated_part_size))

\* Another client of the backend starts an upload without the adapter's check.
create_multipart_upload(bucket_id, object_id) ==
    /\ bucket_id \in buckets
    /\ Len(uploads) < MaxUploads
    /\ uploads' = BackendCreateMultipartUpload(bucket_id, object_id)
    /\ last' = [Call("create_multipart_upload", 0, bucket_id, object_id)
                   EXCEPT !.returned = <<Len(uploads) + 1>>,
                          !.calls = <<"create_multipart_upload">>]
    /\ UNCHANGED <<pc, client, resource, standby, channel, buckets, objects, aborted>>

\* A call that raises and leaves everything as it is.
Refused(call, error, calls) ==
    /\ last' = Raised(call, error, calls)
    /\ UNCHANGED <<pc, client, resource, standby, channel, backend, aborted>>

create_bucket(bucket_id) ==
    LET call == Call("create_bucket", 0, bucket_id, None) IN
    IF client = None THEN Refused(call, "OutOfContextError", <<>>)
    ELSE IF validate_bucket_id(bucket_id) # None
    THEN Refused(call, validate_bucket_id(bucket_id), <<>>)
    ELSE LET absent == _assert_bucket_not_exists(bucket_id) IN
         IF absent.raise # None THEN Refused(call, absent.raise, absent.calls)
         ELSE LET error == BackendCreateBucketError(bucket_id)
                  calls == Append(absent.calls, "create_bucket")
              IN  IF error # <<>>
                  THEN Refused(call, _translate_s3_client_errors(
                                         error, <<>>, <<bucket_id>>, <<>>), calls)
                  ELSE /\ buckets' = buckets \cup {bucket_id}
                       /\ last' = [call EXCEPT !.calls = calls]
                       /\ UNCHANGED <<pc, client, resource, standby, channel, objects, uploads, aborted>>

\* The validators called on a string; the string is kept in args.
validate_bucket_id_call(bucket_id) ==
    /\ last' = [Call("validate_bucket_id", 0, None, None) EXCEPT
                   !.args = bucket_id,
                   !.result = IF validate_bucket_id_str(bucket_id) # None
                              THEN "BucketIdValidationError" ELSE "ok",
                   !.reason = validate_bucket_id_str(bucket_id)]
    /\ UNCHANGED <<pc, client, resource, standby, channel, backend, aborted>>

validate_object_id_call(object_id) ==
    /\ last' = [Call("validate_object_id", 0, None, None) EXCEPT
                   !.args = object_id,
                   !.result = IF validate_object_id_str(object_id) # None
                              THEN "ObjectIdValidationError" ELSE "ok",
                   !.reason = validate_object_id_str(object_id)]
    /\ UNCHANGED <<pc, client, resource, standby, channel, backend, aborted>>

\* does_bucket_exist and does_object_exist called by the user of the adapter.
does_bucket_exist_call(bucket_id) ==
    LET call == Call("does_bucket_exist", 0, bucket_id, None)
        exists == does_bucket_exist(bucket_id)
    IN  /\ last' = IF exists.raise # None
                   THEN Raised(call, exists.raise, exists.calls)
                   ELSE [call EXCEPT !.returned = <<exists.value>>,
                                     !.calls = exists.calls]
        /\ UNCHANGED <<pc, client, resource, standby, channel, backend, aborted>>

does_object_exist_call(bucket_id, object_id) ==
    LET call == Call("does_object_exist", 0, bucket_id, object_id)
        exists == does_object_exist(bucket_id, object_id)
    IN  /\ last' = IF exists.raise # None
                   THEN Raised(call, exists.raise, exists.calls)
                   ELSE [call EXCEPT !.returned = <<exists.value>>,
                                     !.calls = exists.calls]
        /\ UNCHANGED <<pc, client, resource, standby, channel, backend, aborted>>

\* requests.get on a download URL: the content stored under the key.
download_file(presigned_url) == objects[<<presigned_url.Bucket, presigned_url.Key>>]

\* Mutant: the objects of the bucket are deleted whatever delete_content says.
DeleteBucketWithContent(bucket_id, delete_content) ==
    LET call == [Call("delete_bucket", 0, bucket_id, None)
                    EXCEPT !.args = <<delete_content>>]
    IN
    IF resource = None THEN Refused(call, "OutOfContextError", <<>>)
    ELSE IF validate_bucket_id(bucket_id) # None
    THEN Refused(call, validate_bucket_id(bucket_id), <<>>)
    ELSE LET exists == _assert_bucket_exists(bucket_id) IN
         IF exists.raise # None THEN Refused(call, exists.raise, exists.calls)
         ELSE /\ objects' = ObjectsWithout(ObjectsOf(bucket_id))
              /\ buckets' = buckets \ {bucket_id}
              /\ last' = [call EXCEPT !.calls = exists.calls
                                         \o <<"delete_objects", "delete_bucket">>]
              /\ UNCHANGED <<pc, client, resource, standby, channel, uploads, aborted>>

\* delete_bucket looks at _resource where the other methods look at _client;
\* a session that was left is noticed by does_bucket_exist only, after the
\* bucket id has been validated.
delete_bucket(bucket_id, delete_content) ==
    LET call == [Call("delete_bucket", 0, bucket_id, None)
                    EXCEPT !.args = <<delete_content>>]
    IN
    IF resource = None THEN Refused(call, "OutOfContextError", <<>>)
    ELSE IF validate_bucket_id(bucket_id) # None
    THEN Refused(call, validate_bucket_id(bucket_id), <<>>)
    ELSE LET exists == _assert_bucket_exists(bucket_id) IN
         IF exists.raise # None THEN Refused(call, exists.raise, exists.calls)
         ELSE LET deleted == IF delete_content THEN ObjectsOf(bucket_id) ELSE {}
                  error == BackendDeleteBucketError(bucket_id,
                                                    (DOMAIN objects) \ deleted)
                  calls == exists.calls
                             \o (IF delete_content THEN <<"delete_objects">> ELSE <<>>)
                             \o <<"delete_bucket">>
              IN  /\ objects' = ObjectsWithout(deleted)
                  /\ buckets' = IF error # <<>> THEN buckets ELSE buckets \ {bucket_id}
                  /\ last' = IF error # <<>>
                             THEN Raised(call, _translate_s3_client_errors(
                                                   error, <<>>, <<bucket_id>>, <<>>),
                                         calls)
                             ELSE [call EXCEPT !.calls = calls]
                  /\ UNCHANGED <<pc, client, resource, standby, channel, uploads, aborted>>

\* Mutant: the POST is made out for the first object id, whatever was asked for.
UploadUrlForFirstObject(call, bucket_id, object_id) ==
    IF client = None THEN Raised(call, "OutOfContextError", <<>>)
    ELSE IF validate_bucket_id(bucket_id) # None
    THEN Raised(call, validate_bucket_id(bucket_id), <<>>)
    ELSE IF validate_object_id(object_id) # None
    THEN Raised(call, validate_object_id(object_id), <<>>)
    ELSE LET absent == _assert_object_not_exists(bucket_id, object_id) IN
         IF absent.raise # None THEN Raised(call, absent.raise, absent.calls)
         ELSE [call EXCEPT
                  !.returned = <<[Bucket |-> bucket_id, Key |-> "o1"]>>,
                  !.calls = Append(absent.calls, "generate_presigned_post")]

\* What get_object_upload_url gives its caller; it changes nothing.
ObjectUploadUrl(call, bucket_id, object_id) ==
    IF client = None THEN Raised(call, "OutOfContextError", <<>>)
    ELSE IF validate_bucket_id(bucket_id) # None
    THEN Raised(call, validate_bucket_id(bucket_id), <<>>)
    ELSE IF validate_object_id(object_id) # None
    THEN Raised(call, validate_object_id(object_id), <<>>)
    ELSE LET absent == _assert_object_not_exists(bucket_id, object_id) IN
         IF absent.raise # None THEN Raised(call, absent.raise, absent.calls)
         ELSE [call EXCEPT
                  !.returned = <<[Bucket |-> bucket_id, Key |-> object_id]>>,
                  !.calls = Append(absent.calls, "generate_presigned_post")]

get_object_upload_url(bucket_id, object_id) ==
    /\ last' = ObjectUploadUrl(Call("get_object_upload_url", 0, bucket_id, object_id),
                               bucket_id, object_id)
    /\ UNCHANGED <<pc, client, resource, standby, channel, backend, aborted>>

\* The client side of an upload: asks for the object's URL and POSTs the
\* content to it.
upload_file(bucket_id, object_id, content) ==
    LET url == ObjectUploadUrl(Call("upload_file", 0, bucket_id, object_id),
                               bucket_id, object_id)
    IN  IF url.result # "ok"
        THEN /\ last' = url
             /\ UNCHANGED <<pc, client, resource, standby, channel, backend, aborted>>
        ELSE /\ objects' = BackendPutObject(url.returned[1].Bucket,
                                            url.returned[1].Key, content)
             /\ last' = [url EXCEPT !.calls = Append(@, "post")]
             /\ UNCHANGED <<pc, client, resource, standby, channel, buckets, uploads, aborted>>

get_object_download_url(bucket_id, object_id) ==
    LET call == Call("get_object_download_url", 0, bucket_id, object_id) IN
    IF client = None THEN Refused(call, "OutOfContextError", <<>>)
    ELSE IF validate_bucket_id(bucket_id) # None
    THEN Refused(call, validate_bucket_id(bucket_id), <<>>)
    ELSE IF validate_object_id(object_id) # None
    THEN Refused(call, validate_object_id(object_id), <<>>)
    ELSE LET exists == _assert_object_exists(bucket_id, object_id) IN
         IF exists.raise # None THEN Refused(call, exists.raise, exists.calls)
         ELSE /\ last' = [call EXCEPT
                             !.returned = <<[Bucket |-> bucket_id, Key |-> object_id]>>,
                             !.calls = Append(exists.calls, "generate_presigned_url")]
              /\ UNCHANGED <<pc, client, resource, standby, channel, backend, aborted>>

\* The first of the four naming rule violations of copy_object, or None.
CopyIdValidation(source_bucket_id, source_object_id, dest_bucket_id, dest_object_id) ==
    IF validate_bucket_id(source_bucket_id) # None
    THEN validate_bucket_id(source_bucket_id)
    ELSE IF validate_object_id(source_object_id) # None
    THEN validate_object_id(source_object_id)
    ELSE IF validate_bucket_id(dest_bucket_id) # None
    THEN validate_bucket_id(dest_bucket_id)
    ELSE validate_object_id(dest_object_id)

copy_object(source_bucket_id, source_object_id, dest_bucket_id, dest_object_id) ==
    LET call == [Call("copy_object", 0, source_bucket_id, source_object_id)
                    EXCEPT !.args = <<dest_bucket_id, dest_object_id>>]
        invalid == CopyIdValidation(source_bucket_id, source_object_id,
                                    dest_bucket_id, dest_object_id)
    IN
    IF client = None THEN Refused(call, "OutOfContextError", <<>>)
    ELSE IF invalid # None THEN Refused(call, invalid, <<>>)
    ELSE LET source == _assert_object_exists(source_bucket_id, source_object_id) IN
         IF source.raise # None THEN Refused(call, source.raise, source.calls)
         ELSE LET dest == _assert_object_not_exists(dest_bucket_id, dest_object_id)
                  checks == source.calls \o dest.calls
              IN
              IF dest.raise # None THEN Refused(call, dest.raise, checks)
              ELSE LET error == BackendCopyError(source_bucket_id, source_object_id,
                                                 dest_bucket_id)
                       calls == Append(checks, "copy")
                   IN
                   IF error # <<>>
                   THEN Refused(call, _translate_s3_client_errors(
                                          error, <<>>, <<>>, <<>>), calls)
                   ELSE /\ objects' = BackendPutObject(
                                          dest_bucket_id, dest_object_id,
                                          objects[<<source_bucket_id, source_object_id>>])
                        /\ last' = [call EXCEPT !.calls = calls]
                        /\ UNCHANGED <<pc, client, resource, standby, channel, buckets, uploads, aborted>>

delete_object(bucket_id, object_id) ==
    LET call == Call("delete_object", 0, bucket_id, object_id) IN
    IF client = None THEN Refused(call, "OutOfContextError", <<>>)
    ELSE IF validate_bucket_id(bucket_id) # None
    THEN Refused(call, validate_bucket_id(bucket_id), <<>>)
    ELSE IF validate_object_id(object_id) # None
    THEN Refused(call, validate_object_id(object_id), <<>>)
    ELSE LET exists == _assert_object_exists(bucket_id, object_id) IN
         IF exists.raise # None THEN Refused(call, exists.raise, exists.calls)
         ELSE LET error == BackendDeleteObjectError(bucket_id, object_id)
                  calls == Append(exists.calls, "delete_object")
              IN  IF error # <<>>
                  THEN Refused(call, _translate_s3_client_errors(
                                         error, <<>>, <<bucket_id>>, <<object_id>>),
                               calls)
                  ELSE /\ objects' = ObjectsWithout({<<bucket_id, object_id>>})
                       /\ last' = [call EXCEPT !.calls = calls]
                       /\ UNCHANGED <<pc, client, resource, standby, channel, buckets, uploads, aborted>>

\* ------------------------------------------- callers between check and call
\* complete_multipart_upload by one of several concurrent callers, up to the
\* tag list: the existence and exclusiveness of the upload, the part
\* inventory and its check are behind the caller, the completion call ahead.
complete_check(c, upload_id, bucket_id, object_id) ==
    LET call == [Call("complete_multipart_upload", upload_id, bucket_id, object_id)
                    EXCEPT !.anticipated = <<<<>>, <<>>>>]
        at(where, rest) == [at |-> where, bucket_id |-> bucket_id,
                            object_id |-> object_id, returned |-> rest]
        parts_info == _get_parts_info(upload_id, bucket_id, object_id)
        rejected == _check_uploaded_parts(parts_info.Parts, <<>>, <<>>)
    IN
    /\ pc[c].at \notin {"checked", "complete"}
    /\ IF client = None
       THEN /\ last' = Raised(call, "OutOfContextError", <<>>)
            /\ pc' = [pc EXCEPT ![c] = at("raised", <<>>)]
       ELSE IF parts_info.raise # None
       THEN /\ last' = [Raised(call, parts_info.raise, parts_info.calls)
                           EXCEPT !.upload_ids = parts_info.upload_ids]
            /\ pc' = [pc EXCEPT ![c] = at("raised", <<>>)]
       ELSE IF rejected # None
       THEN /\ last' = [Raised(call, "MultiPartUploadConfirmError", parts_info.calls)
                           EXCEPT !.reason = rejected]
            /\ pc' = [pc EXCEPT ![c] = at("raised", <<>>)]
       ELSE /\ pc' = [pc EXCEPT ![c] =
                        at("complete",
                           <<upload_id,
                             [i \in 1..Len(parts_info.Parts) |->
                                 [ETag |-> parts_info.Parts[i].ETag,
                                  PartNumber |-> parts_info.Parts[i].PartNumber]]>>)]
            /\ UNCHANGED last
    /\ UNCHANGED <<client, resource, standby, channel, backend, aborted>>

\* The rest of complete_multipart_upload: the completion call with the tag
\* list, and the translation of its error.
complete_call(c) ==
    LET upload_id == pc[c].returned[1]
        part_etags == pc[c].returned[2]
        bucket_id == pc[c].bucket_id
        object_id == pc[c].object_id
        call == [Call("complete_multipart_upload", upload_id, bucket_id, object_id)
                    EXCEPT !.anticipated = <<<<>>, <<>>>>]
        calls == <<"list_multipart_uploads", "list_parts", "complete_multipart_upload">>
        error == IF upload_id \notin ActiveUploadIds THEN <<"NoSuch", "Upload">>
                 ELSE BackendCompleteError(upload_id, part_etags)
    IN
    /\ pc[c].at = "complete"
    /\ IF error # <<>>
       THEN /\ last' = Raised(call, _translate_s3_client_errors(
                                       error, <<upload_id>>, <<bucket_id>>,
                                       <<object_id>>), calls)
            /\ pc' = [pc EXCEPT ![c].at = "raised", ![c].returned = <<>>]
            /\ UNCHANGED <<objects, uploads>>
       ELSE /\ objects' = BackendPutObject(bucket_id, object_id,
                                           AssembledContent(upload_id, part_etags))
            /\ uploads' = BackendCompleteMultipartUpload(upload_id)
            /\ last' = [call EXCEPT !.calls = calls]
            /\ pc' = [pc EXCEPT ![c].at = "returned", ![c].returned = <<>>]
    /\ UNCHANGED <<client, resource, standby, channel, buckets, aborted>>

\* A caller that has passed the check of create_bucket, copy_object or
\* get_object_upload_url and has not yet made the backend call or the POST.
Between(where, bucket_id, object_id, rest) ==
    [at |-> where, bucket_id |-> bucket_id, object_id |-> object_id, returned |-> rest]

\* What S3 answers to CreateBucket: for a bucket that exists,
\* BucketAlreadyOwnedByYou when the caller owns it and BucketAlreadyExists
\* when another account does.
BackendCreateBucketErrors(bucket_id) ==
    IF bucket_id \in buckets
    THEN {<<"Bucket", "Already", "Owned", "By", "You">>,
          <<"Bucket", "Already", "Exists">>}
    ELSE {<<>>}

\* create_bucket up to the answer of _assert_bucket_not_exists: the session,
\* the id, the bucket.
create_bucket_check(c, bucket_id) ==
    LET call == Call("create_bucket", 0, bucket_id, None)
        absent == _assert_bucket_not_exists(bucket_id)
    IN
    /\ pc[c] = Idle
    /\ IF client = None \/ validate_bucket_id(bucket_id) # None \/ absent.raise # None
       THEN /\ last' = IF client = None THEN Raised(call, "OutOfContextError", <<>>)
                       ELSE IF validate_bucket_id(bucket_id) # None
                       THEN Raised(call, validate_bucket_id(bucket_id), <<>>)
                       ELSE Raised(call, absent.raise, absent.calls)
            /\ UNCHANGED pc
       ELSE /\ pc' = [pc EXCEPT ![c] = Between("create_bucket", bucket_id, None, <<>>)]
            /\ UNCHANGED last
    /\ UNCHANGED <<client, resource, standby, channel, backend, aborted>>

\* The rest of create_bucket: the backend call and the translation of its
\* error.
create_bucket_call(c) ==
    LET bucket_id == pc[c].bucket_id
        call == Call("create_bucket", 0, bucket_id, None)
        calls == <<"list_buckets", "create_bucket">>
    IN
    /\ pc[c].at = "create_bucket"
    /\ pc' = [pc EXCEPT ![c] = Idle]
    /\ \E error \in BackendCreateBucketErrors(bucket_id) :
          IF error # <<>>
          THEN /\ last' = Raised(call, _translate_s3_client_errors(
                                           error, <<>>, <<bucket_id>>, <<>>), calls)
               /\ UNCHANGED buckets
          ELSE /\ buckets' = buckets \cup {bucket_id}
               /\ last' = [call EXCEPT !.calls = calls]
    /\ UNCHANGED <<client, resource, standby, channel, objects, uploads, aborted>>

\* copy_object up to the answers of _assert_object_exists and
\* _assert_object_not_exists.
copy_object_check(c, source_bucket_id, source_object_id, dest_bucket_id, dest_object_id) ==
    LET call == [Call("copy_object", 0, source_bucket_id, source_object_id)
                    EXCEPT !.args = <<dest_bucket_id, dest_object_id>>]
        invalid == CopyIdValidation(source_bucket_id, source_object_id,
                                    dest_bucket_id, dest_object_id)
        source == _assert_object_exists(source_bucket_id, source_object_id)
        dest == _assert_object_not_exists(dest_bucket_id, dest_object_id)
    IN
    /\ pc[c] = Idle
    /\ IF client = None THEN last' = Raised(call, "OutOfContextError", <<>>) /\ UNCHANGED pc
       ELSE IF invalid # None THEN last' = Raised(call, invalid, <<>>) /\ UNCHANGED pc
       ELSE IF source.raise # None
       THEN last' = Raised(call, source.raise, source.calls) /\ UNCHANGED pc
       ELSE IF dest.raise # None
       THEN last' = Raised(call, dest.raise, source.calls \o dest.calls) /\ UNCHANGED pc
       ELSE /\ pc' = [pc EXCEPT ![c] = Between("copy_object", source_bucket_id,
                                               source_object_id,
                                               <<dest_bucket_id, dest_object_id>>)]
            /\ UNCHANGED last
    /\ UNCHANGED <<client, resource, standby, channel, backend, aborted>>

\* The rest of copy_object: S3 copies onto the destination key whether or
\* not an object is there.
copy_object_call(c) ==
    LET source_bucket_id == pc[c].bucket_id
        source_object_id == pc[c].object_id
        dest_bucket_id == pc[c].returned[1]
        dest_object_id == pc[c].returned[2]
        call == [Call("copy_object", 0, source_bucket_id, source_object_id)
                    EXCEPT !.args = <<dest_bucket_id, dest_object_id>>]
        calls == <<"list_buckets", "head_object", "list_buckets", "head_object", "copy">>
        error == BackendCopyError(source_bucket_id, source_object_id, dest_bucket_id)
    IN
    /\ pc[c].at = "copy_object"
    /\ pc' = [pc EXCEPT ![c] = Idle]
    /\ IF error # <<>>
       THEN /\ last' = Raised(call, _translate_s3_client_errors(error, <<>>, <<>>, <<>>),
                              calls)
            /\ UNCHANGED objects
       ELSE /\ objects' = BackendPutObject(
                              dest_bucket_id, dest_object_id,
                              objects[<<source_bucket_id, source_object_id>>])
            /\ last' = [call EXCEPT !.calls = calls]
    /\ UNCHANGED <<client, resource, standby, channel, buckets, uploads, aborted>>

\* A client asks for the upload URL of an object and holds it.
upload_url_get(c, bucket_id, object_id) ==
    LET url == ObjectUploadUrl(Call("get_object_upload_url", 0, bucket_id, object_id),
                               bucket_id, object_id)
    IN
    /\ pc[c] = Idle
    /\ last' = url
    /\ pc' = IF url.result # "ok" THEN pc
             ELSE [pc EXCEPT ![c] = Between("upload", bucket_id, object_id, url.returned)]
    /\ UNCHANGED <<client, resource, standby, channel, backend, aborted>>

\* The client POSTs a content to the URL it holds: S3 stores it under the key
\* whether or not an object is there.
upload_url_post(c, content) ==
    LET presigned_url == pc[c].returned[1] IN
    /\ pc[c].at = "upload"
    /\ pc' = [pc EXCEPT ![c] = Idle]
    /\ objects' = BackendPutObject(presigned_url.Bucket, presigned_url.Key, content)
    /\ last' = [Call("upload_file", 0, pc[c].bucket_id, pc[c].object_id) EXCEPT
                   !.calls = <<"post">>]
    /\ UNCHANGED <<client, resource, standby, channel, buckets, uploads, aborted>>

\* ------------------------------------------------- failing backend calls
\* The error codes a backend call can fail with: the ones the translator
\* knows by name, ones it matches by keyword, and ones it does not know.
ErrorCodes ==
    {<<"NoSuch", "Bucket">>, <<"Bucket", "Already", "Exists">>, <<"NoSuch", "Key">>,
     <<"Object", "Already", "In", "Active", "Tier", "Error">>,
     <<"NoSuch", "Upload">>, <<"Bucket", "Not", "Empty">>,
     <<"Invalid", "Object", "State">>, <<"Key", "Too", "Long", "Error">>,
     <<"Access", "Denied">>}

\* Whether the method gets as far as the backend call of its try block.
ReachesBackendCall(call) ==
    LET upload_id == call.upload_id
        bucket_id == call.bucket_id
        object_id == call.object_id
    IN
    CASE call.op = "does_bucket_exist" -> validate_bucket_id(bucket_id) = None
      [] call.op = "create_bucket" -> _assert_bucket_not_exists(bucket_id).raise = None
      [] call.op = "delete_bucket" ->
            resource # None /\ _assert_bucket_exists(bucket_id).raise = None
      [] call.op = "does_object_exist" ->
            validate_bucket_id(bucket_id) = None /\ validate_object_id(object_id) = None
      [] call.op = "get_object_upload_url" ->
            _assert_object_not_exists(bucket_id, object_id).raise = None
      [] call.op \in {"get_object_download_url", "delete_object"} ->
            _assert_object_exists(bucket_id, object_id).raise = None
      [] call.op = "copy_object" ->
            /\ CopyIdValidation(bucket_id, object_id, call.args[1], call.args[2]) = None
            /\ _assert_object_exists(bucket_id, object_id).raise = None
            /\ _assert_object_not_exists(call.args[1], call.args[2]).raise = None
      [] call.op = "init_multipart_upload" ->
            _assert_no_multipart_upload(bucket_id, object_id) = None
      [] call.op = "get_part_upload_url" ->
            _assert_multipart_upload_exist(upload_id, bucket_id, object_id,
                                           TRUE).raise = None
      [] call.op = "abort_multipart_upload" ->
            _assert_multipart_upload_exist(upload_id, bucket_id, object_id,
                                           FALSE).raise = None
      [] call.op = "complete_multipart_upload" ->
            LET parts_info == _get_parts_info(upload_id, bucket_id, object_id) IN
            /\ parts_info.raise = None
            /\ _check_uploaded_parts(parts_info.Parts, <<>>, <<>>) = None

\* The backend call of the try block of the method.
BackendCallOf(op) ==
    CASE op = "does_bucket_exist" -> "list_buckets"
      [] op = "create_bucket" -> "create_bucket"
      [] op = "delete_bucket" -> "delete_bucket"
      [] op = "does_object_exist" -> "head_object"
      [] op = "get_object_upload_url" -> "generate_presigned_post"
      [] op = "get_object_download_url" -> "generate_presigned_url"
      [] op = "copy_object" -> "copy"
      [] op = "delete_object" -> "delete_object"
      [] op = "init_multipart_upload" -> "create_multipart_upload"
      [] op = "get_part_upload_url" -> "generate_presigned_url"
      [] op = "abort_multipart_upload" -> "abort_multipart_upload"
      [] op = "complete_multipart_upload" -> "complete_multipart_upload"

\* What the except clause of the method makes of the client error:
\* does_object_exist answers False, copy_object hands the translator no
\* context, the others hand it the ids they have.
ClientErrorOutcome(call, error_code) ==
    LET calls == <<BackendCallOf(call.op)>>
        upload_id == <<call.upload_id>>
        bucket_id == <<call.bucket_id>>
        object_id == <<call.object_id>>
    IN
    IF call.op = "does_object_exist"
    THEN [call EXCEPT !.returned = <<FALSE>>, !.calls = calls]
    ELSE IF call.op = "copy_object"
    THEN Raised(call, _translate_s3_client_errors(error_code, <<>>, <<>>, <<>>), calls)
    ELSE IF call.op \in {"does_bucket_exist", "create_bucket", "delete_bucket"}
    THEN Raised(call, _translate_s3_client_errors(error_code, <<>>, bucket_id, <<>>),
                calls)
    ELSE IF call.op \in {"get_object_upload_url", "get_object_download_url",
                         "delete_object", "init_multipart_upload"}
    THEN Raised(call, _translate_s3_client_errors(error_code, <<>>, bucket_id,
                                                  object_id), calls)
    ELSE Raised(call, _translate_s3_client_errors(error_code, upload_id, bucket_id,
                                                  object_id), calls)

\* A Port call whose backend call fails with a client error.
client_error(call, error_code) ==
    /\ client # None
    /\ ReachesBackendCall(call)
    /\ last' = ClientErrorOutcome(call, error_code)
    /\ UNCHANGED <<pc, client, resource, standby, channel, backend, aborted>>

\* AmqpTopic.subscribe(exec_on_message, run_forever): the callback is built
\* and start_consuming runs.
subscribe(run_forever) ==
    /\ ~channel.consuming
    /\ Len(channel.delivered) < MaxDeliveries
    /\ channel' = [channel EXCEPT !.consuming = TRUE, !.stop_on_consume = ~run_forever]
    /\ UNCHANGED <<pc, client, resource, standby, backend, last, aborted>>

\* The broker delivers a message and the callback runs on it.  Consuming
\* ends with stop_consuming, with an exception out of the callback, and
\* when the broker closes the channel for a delivery tag settled again.
callback(message) ==
    LET done == callback_factory(channel.json_schema, channel.stop_on_consume, message)
    IN
    /\ channel.consuming
    /\ Len(channel.delivered) < MaxDeliveries
    /\ channel' = [channel EXCEPT
                      !.delivered = Append(@, [message |-> message,
                                               calls |-> done.calls,
                                               raise |-> done.raise]),
                      !.consuming = /\ ~channel.stop_on_consume
                                    /\ done.raise = None
                                    /\ Len(SelectSeq(done.calls, IsSettlement)) <= 1]
    /\ UNCHANGED <<pc, client, resource, standby, backend, last, aborted>>

\* delete_bucket whose bucket.delete() fails with a client error: with
\* delete_content the objects of the bucket have been deleted by then.
delete_bucket_client_error(bucket_id, delete_content, error_code) ==
    LET call == [Call("delete_bucket", 0, bucket_id, None)
                    EXCEPT !.args = <<delete_content>>]
        calls == (IF delete_content THEN <<"delete_objects">> ELSE <<>>)
                     \o <<"delete_bucket">>
    IN
    /\ client # None
    /\ ReachesBackendCall(call)
    /\ objects' = IF delete_content THEN ObjectsWithout(ObjectsOf(bucket_id)) ELSE objects
    /\ last' = Raised(call, _translate_s3_client_errors(error_code, <<>>, <<bucket_id>>,
                                                        <<>>), calls)
    /\ UNCHANGED <<pc, client, resource, standby, channel, buckets, uploads, aborted>>

\* --------------------------------------------------------- specifications
Optional(S) == {<<>>} \cup {<<x>> : x \in S}

Init_multipart_upload ==
    \E b \in ExistingBuckets, o \in ObjectIds : init_multipart_upload(b, o)

Get_part_upload_url ==
    \E u \in UploadIds, b \in ExistingBuckets, o \in ObjectIds, n \in PartNumbers :
        get_part_upload_url(u, b, o, n)

Upload_part ==
    \E u \in UploadIds, b \in ExistingBuckets, o \in ObjectIds, n \in 1..MaxPartNumber :
        upload_part(u, b, o, DEFAULT_PART_SIZE, n)

Abort_multipart_upload ==
    \E u \in UploadIds, b \in ExistingBuckets, o \in ObjectIds :
        abort_multipart_upload(u, b, o)

Complete_multipart_upload ==
    \E u \in UploadIds, b \in ExistingBuckets, o \in ObjectIds :
        complete_multipart_upload(u, b, o, <<>>, <<>>)

Create_multipart_upload ==
    \E b \in ExistingBuckets, o \in ObjectIds : create_multipart_upload(b, o)

PortNext ==
    \/ Init_multipart_upload
    \/ Get_part_upload_url
    \/ Upload_part
    \/ Abort_multipart_upload
    \/ Complete_multipart_upload

Next == PortNext \/ Create_multipart_upload

\* The adapter and any other client of the backend.
Spec == Init /\ [][Next]_vars

\* Uploads are started through the adapter only.
SpecPort == Init /\ [][PortNext]_vars

\* One initialized upload, parts of any size, completion with any anticipation.
CheckSizes == 1..MaxCheckSize
CheckQuantities == 0..(MaxCheckParts + 1)

Check_upload_part ==
    \E size \in CheckSizes, n \in 1..MaxCheckParts :
        upload_part(1, "b1", "o1", size, n)

Check_complete_multipart_upload ==
    \E q \in Optional(CheckQuantities), s \in Optional(CheckSizes) :
        complete_multipart_upload(1, "b1", "o1", q, s)

CheckNext == Check_upload_part \/ Check_complete_multipart_upload

SpecCheck == InitializedUpload /\ [][CheckNext]_vars

\* Calls with upload ids, buckets and objects other than the ones an upload
\* was started with, and with part numbers at both ends of the valid range.
Lookup_get_part_upload_url ==
    \E u \in UploadIds, b \in BucketIds, o \in ObjectIds, n \in BoundaryPartNumbers :
        get_part_upload_url(u, b, o, n)

Lookup_complete_multipart_upload ==
    \E u \in UploadIds, b \in BucketIds, o \in ObjectIds :
        complete_multipart_upload(u, b, o, <<>>, <<>>)

LookupNext ==
    \/ Init_multipart_upload
    \/ Upload_part
    \/ Abort_multipart_upload
    \/ Lookup_get_part_upload_url
    \/ Lookup_complete_multipart_upload

SpecLookup == Init /\ [][LookupNext]_vars

\* Buckets and objects: created, uploaded, copied, downloaded and deleted
\* under every combination of the bucket and object ids.
Create_bucket == \E b \in BucketIds : create_bucket(b)

Delete_bucket ==
    \E b \in BucketIds, delete_content \in BOOLEAN : delete_bucket(b, delete_content)

Get_object_upload_url ==
    \E b \in BucketIds, o \in ObjectIds : get_object_upload_url(b, o)

Upload_file ==
    \E b \in BucketIds, o \in ObjectIds, content \in Contents : upload_file(b, o, content)

Get_object_download_url ==
    \E b \in BucketIds, o \in ObjectIds : get_object_download_url(b, o)

Copy_object ==
    \E sb \in BucketIds, so \in ObjectIds, db \in BucketIds, do \in ObjectIds :
        copy_object(sb, so, db, do)

Delete_object == \E b \in BucketIds, o \in ObjectIds : delete_object(b, o)

StoreNext ==
    \/ Create_bucket
    \/ Delete_bucket
    \/ Get_object_upload_url
    \/ Upload_file
    \/ Get_object_download_url
    \/ Copy_object
    \/ Delete_object

SpecStore == Init /\ [][StoreNext]_vars

\* Concurrent callers of init_multipart_upload, whose steps interleave, and
\* completed aborts of the uploads they started.
Init_check ==
    \E c \in Clients, b \in ExistingBuckets, o \in ObjectIds : init_check(c, b, o)

Init_create == \E c \in Clients : init_create(c)

RaceNext == Init_check \/ Init_create \/ Abort_multipart_upload

SpecRace == Init /\ [][RaceNext]_vars

\* Aborts that remove the upload and aborts that leave parts behind, with
\* uploads started by the adapter and by others.
Abort_with_parts_remaining ==
    \E u \in UploadIds, b \in ExistingBuckets, o \in ObjectIds :
        abort_with_parts_remaining(u, b, o)

AbortNext ==
    \/ Init_multipart_upload
    \/ Create_multipart_upload
    \/ Upload_part
    \/ Abort_multipart_upload
    \/ Abort_with_parts_remaining

SpecAbort == Init /\ [][AbortNext]_vars

\* Calls for part 1 and completions under every combination of upload id,
\* bucket and object, with uploads started by the adapter and by others.
Triple_get_part_upload_url ==
    \E u \in UploadIds, b \in BucketIds, o \in ObjectIds :
        get_part_upload_url(u, b, o, 1)

TripleNext ==
    \/ Init_multipart_upload
    \/ Create_multipart_upload
    \/ Upload_part
    \/ Abort_multipart_upload
    \/ Triple_get_part_upload_url
    \/ Lookup_complete_multipart_upload

SpecTriple == Init /\ [][TripleNext]_vars

\* Two callers whose checks and backend calls interleave.
Conflict_create_bucket_check ==
    \E c \in Clients, b \in BucketIds : create_bucket_check(c, b)

Conflict_create_bucket_call == \E c \in Clients : create_bucket_call(c)

Conflict_copy_object_check ==
    \E c \in Clients, b \in ExistingBuckets, so \in ObjectIds, do \in ObjectIds :
        copy_object_check(c, b, so, b, do)

Conflict_copy_object_call == \E c \in Clients : copy_object_call(c)

Conflict_upload_url_get ==
    \E c \in Clients, b \in ExistingBuckets, o \in ObjectIds : upload_url_get(c, b, o)

Conflict_upload_url_post ==
    \E c \in Clients, content \in Contents : upload_url_post(c, content)

ConflictNext ==
    \/ Conflict_create_bucket_check
    \/ Conflict_create_bucket_call
    \/ Conflict_copy_object_check
    \/ Conflict_copy_object_call
    \/ Conflict_upload_url_get
    \/ Conflict_upload_url_post

SpecConflict == Init /\ [][ConflictNext]_vars

\* Two adapters on one backend, constructed, entered and left at any time;
\* the caller makes each call through the one in use.
InstanceBucketIds == {"b1", "-b"}

InstanceObjectIds == {"o1"}

Instance_does_bucket_exist == \E b \in InstanceBucketIds : does_bucket_exist_call(b)

Instance_does_object_exist ==
    \E b \in InstanceBucketIds, o \in InstanceObjectIds : does_object_exist_call(b, o)

Instance_create_bucket == \E b \in InstanceBucketIds : create_bucket(b)

Instance_delete_bucket ==
    \E b \in InstanceBucketIds, delete_content \in BOOLEAN : delete_bucket(b, delete_content)

Instance_get_object_upload_url ==
    \E b \in InstanceBucketIds, o \in InstanceObjectIds : get_object_upload_url(b, o)

Instance_get_object_download_url ==
    \E b \in InstanceBucketIds, o \in InstanceObjectIds : get_object_download_url(b, o)

Instance_copy_object ==
    \E b \in InstanceBucketIds, o \in InstanceObjectIds : copy_object(b, o, b, o)

Instance_delete_object ==
    \E b \in InstanceBucketIds, o \in InstanceObjectIds : delete_object(b, o)

Instance_init_multipart_upload ==
    /\ client = None \/ Len(uploads) < MaxSessionUploads
    /\ \E b \in InstanceBucketIds, o \in InstanceObjectIds : init_multipart_upload(b, o)

Instance_get_part_upload_url ==
    \E b \in InstanceBucketIds, o \in InstanceObjectIds : get_part_upload_url(1, b, o, 1)

Instance_upload_part ==
    \E b \in InstanceBucketIds, o \in InstanceObjectIds :
        upload_part(1, b, o, DEFAULT_PART_SIZE, 1)

Instance_complete_multipart_upload ==
    \E b \in InstanceBucketIds, o \in InstanceObjectIds :
        complete_multipart_upload(1, b, o, <<>>, <<>>)

Instance_abort_multipart_upload ==
    \E b \in InstanceBucketIds, o \in InstanceObjectIds : abort_multipart_upload(1, b, o)

InstancesNext ==
    \/ Enter
    \/ Exit
    \/ Switch
    \/ Instance_does_bucket_exist
    \/ Instance_does_object_exist
    \/ Instance_create_bucket
    \/ Instance_delete_bucket
    \/ Instance_get_object_upload_url
    \/ Instance_get_object_download_url
    \/ Instance_copy_object
    \/ Instance_delete_object
    \/ Instance_init_multipart_upload
    \/ Instance_get_part_upload_url
    \/ Instance_upload_part
    \/ Instance_complete_multipart_upload
    \/ Instance_abort_multipart_upload

SpecInstances == Constructed /\ [][InstancesNext]_vars

\* The translator on its own: a client error with a code, and the context
\* the caller hands over with it.
TranslateCodes ==
    {<<"NoSuch", "Bucket">>, <<"Bucket", "Already", "Exists">>, <<"NoSuch", "Key">>,
     <<"Object", "Already", "In", "Active", "Tier", "Error">>, <<"NoSuch", "Upload">>,
     <<"Bucket", "Already", "Owned", "By", "You">>, <<"Bucket", "Not", "Empty">>,
     <<"Invalid", "Object", "State">>, <<"Key", "Too", "Long", "Error">>,
     <<"Object", "Not", "In", "Bucket">>, <<"Bucket", "Key", "Error">>,
     <<"NoSuch", "Bucket", "Policy">>, <<"Access", "Denied">>, <<"Slow", "Down">>,
     <<"404">>}

TranslateContexts ==
    {<<u, b, o>> : u \in Optional({1}), b \in Optional({"b1"}), o \in Optional({"o1"})}

InitTranslate ==
    /\ client = "open"
    /\ resource = "open"
    /\ standby = ConstructedAdapter
    /\ channel = Unsubscribed
    /\ buckets = ExistingBuckets
    /\ objects = <<>>
    /\ uploads = <<>>
    /\ aborted = {}
    /\ pc = [c \in Clients |-> Idle]
    /\ \E error_code \in TranslateCodes, context \in TranslateContexts :
          last = [Call("ClientError", 0, None, None) EXCEPT
                     !.args = <<error_code>> \o context]

Translate ==
    LET error_code == last.args[1]
        upload_id == last.args[2]
        bucket_id == last.args[3]
        object_id == last.args[4]
        exception == _translate_s3_client_errors(error_code, upload_id, bucket_id,
                                                 object_id)
    IN
    /\ last.op = "ClientError"
    /\ last' = [Call("_translate_s3_client_errors", 0, None, None) EXCEPT
                   !.args = last.args,
                   !.result = exception,
                   !.returned = IF exception = "ValueError" THEN <<>>
                                ELSE TranslatedMessage(error_code)]
    /\ UNCHANGED <<pc, client, resource, standby, channel, backend, aborted>>

SpecTranslate == InitTranslate /\ [][Translate]_vars

\* Two callers on one object: each starts uploads, uploads a part and
\* completes, the checks and the backend calls of init_multipart_upload and
\* complete_multipart_upload interleaving.
Completion_init_check ==
    \E c \in Clients : pc[c].at # "complete" /\ init_check(c, "b1", "o1")

Completion_init_create == \E c \in Clients : init_create(c)

Completion_upload_part ==
    \E u \in 1..Len(uploads) : upload_part(u, "b1", "o1", DEFAULT_PART_SIZE, 1)

Completion_complete_check ==
    \E c \in Clients, u \in 1..Len(uploads) : complete_check(c, u, "b1", "o1")

Completion_complete_call == \E c \in Clients : complete_call(c)

CompletionNext ==
    \/ Completion_init_check
    \/ Completion_init_create
    \/ Completion_upload_part
    \/ Completion_complete_check
    \/ Completion_complete_call

SpecCompletion == Init /\ [][CompletionNext]_vars

\* typical_workflow on a store without buckets.  Its arguments are kept
\* where the caller c1 stands; the place in the workflow is told by the last
\* call and the buckets there are.  A file is the sequence of its pieces of
\* part_size, the last one shorter or not.
WorkflowFiles ==
    {<<1>>, <<DEFAULT_PART_SIZE>>, <<DEFAULT_PART_SIZE, 4>>,
     <<DEFAULT_PART_SIZE, DEFAULT_PART_SIZE>>}

Workflow == pc["c1"]
WorkflowBucket1 == Workflow.bucket_id
WorkflowBucket2 == Workflow.returned[1]
WorkflowObject == Workflow.object_id
WorkflowFile == Workflow.returned[2]
WorkflowMultipart == Workflow.returned[3]

InitWorkflow ==
    /\ client = "open"
    /\ resource = "open"
    /\ standby = ConstructedAdapter
    /\ channel = Unsubscribed
    /\ buckets = {}
    /\ objects = <<>>
    /\ uploads = <<>>
    /\ last = Call("typical_workflow", 0, None, None)
    /\ aborted = {}
    /\ \E bucket1_id \in BucketIds, bucket2_id \in BucketIds, o \in ObjectIds,
          test_file \in WorkflowFiles, use_multipart_upload \in BOOLEAN :
          /\ bucket1_id # bucket2_id
          /\ pc = [c \in Clients |->
                     IF c = "c1"
                     THEN [at |-> "typical_workflow", bucket_id |-> bucket1_id,
                           object_id |-> o,
                           returned |-> <<bucket2_id, test_file, use_multipart_upload>>]
                     ELSE Idle]

\* The last call was this method on these ids and returned normally.
Returned(op, bucket_id, object_id) ==
    /\ last.op = op
    /\ last.bucket_id = bucket_id
    /\ last.object_id = object_id
    /\ last.result = "ok"

Workflow_create_bucket1 ==
    /\ last.op = "typical_workflow"
    /\ create_bucket(WorkflowBucket1)

Workflow_confirm_bucket_creation ==
    /\ Returned("create_bucket", WorkflowBucket1, None)
    /\ does_bucket_exist_call(WorkflowBucket1)

Workflow_upload_file ==
    /\ ~WorkflowMultipart
    /\ Returned("does_bucket_exist", WorkflowBucket1, None)
    /\ last.returned = <<TRUE>>
    /\ upload_file(WorkflowBucket1, WorkflowObject, WorkflowFile)

Workflow_init_multipart_upload ==
    /\ WorkflowMultipart
    /\ Returned("does_bucket_exist", WorkflowBucket1, None)
    /\ last.returned = <<TRUE>>
    /\ init_multipart_upload(WorkflowBucket1, WorkflowObject)

\* The upload id multipart_upload_file holds, and the parts it has uploaded.
WorkflowUploadId ==
    IF last.op = "init_multipart_upload" THEN last.returned[1] ELSE last.upload_id

WorkflowPartsUploaded == Cardinality(DOMAIN uploads[WorkflowUploadId].Parts)

Workflow_upload_part ==
    /\ \/ Returned("init_multipart_upload", WorkflowBucket1, WorkflowObject)
       \/ Returned("upload_part", WorkflowBucket1, WorkflowObject)
    /\ WorkflowPartsUploaded < Len(WorkflowFile)
    /\ upload_part(WorkflowUploadId, WorkflowBucket1, WorkflowObject,
                   WorkflowFile[WorkflowPartsUploaded + 1], WorkflowPartsUploaded + 1)

Workflow_complete_multipart_upload ==
    /\ Returned("upload_part", WorkflowBucket1, WorkflowObject)
    /\ WorkflowPartsUploaded = Len(WorkflowFile)
    /\ complete_multipart_upload(WorkflowUploadId, WorkflowBucket1, WorkflowObject,
                                 <<>>, <<>>)

Workflow_confirm_object_upload ==
    /\ \/ Returned("upload_file", WorkflowBucket1, WorkflowObject)
       \/ Returned("complete_multipart_upload", WorkflowBucket1, WorkflowObject)
    /\ does_object_exist_call(WorkflowBucket1, WorkflowObject)

Workflow_download1 ==
    /\ Returned("does_object_exist", WorkflowBucket1, WorkflowObject)
    /\ last.returned = <<TRUE>>
    /\ get_object_download_url(WorkflowBucket1, WorkflowObject)

Workflow_create_bucket2 ==
    /\ Returned("get_object_download_url", WorkflowBucket1, WorkflowObject)
    /\ download_file(last.returned[1]) = WorkflowFile
    /\ create_bucket(WorkflowBucket2)

Workflow_copy_object ==
    /\ Returned("create_bucket", WorkflowBucket2, None)
    /\ copy_object(WorkflowBucket1, WorkflowObject, WorkflowBucket2, WorkflowObject)

Workflow_delete_object ==
    /\ Returned("copy_object", WorkflowBucket1, WorkflowObject)
    /\ delete_object(WorkflowBucket1, WorkflowObject)

Workflow_confirm_move_source ==
    /\ Returned("delete_object", WorkflowBucket1, WorkflowObject)
    /\ does_object_exist_call(WorkflowBucket1, WorkflowObject)

Workflow_confirm_move_dest ==
    /\ Returned("does_object_exist", WorkflowBucket1, WorkflowObject)
    /\ last.returned = <<FALSE>>
    /\ does_object_exist_call(WorkflowBucket2, WorkflowObject)

Workflow_delete_bucket ==
    /\ Returned("does_object_exist", WorkflowBucket2, WorkflowObject)
    /\ last.returned = <<TRUE>>
    /\ delete_bucket(WorkflowBucket1, FALSE)

Workflow_confirm_bucket_deletion ==
    /\ Returned("delete_bucket", WorkflowBucket1, None)
    /\ does_bucket_exist_call(WorkflowBucket1)

Workflow_download2 ==
    /\ Returned("does_bucket_exist", WorkflowBucket1, None)
    /\ last.returned = <<FALSE>>
    /\ get_object_download_url(WorkflowBucket2, WorkflowObject)

WorkflowNext ==
    \/ Workflow_create_bucket1
    \/ Workflow_confirm_bucket_creation
    \/ Workflow_upload_file
    \/ Workflow_init_multipart_upload
    \/ Workflow_upload_part
    \/ Workflow_complete_multipart_upload
    \/ Workflow_confirm_object_upload
    \/ Workflow_download1
    \/ Workflow_create_bucket2
    \/ Workflow_copy_object
    \/ Workflow_delete_object
    \/ Workflow_confirm_move_source
    \/ Workflow_confirm_move_dest
    \/ Workflow_delete_bucket
    \/ Workflow_confirm_bucket_deletion
    \/ Workflow_download2

\* The workflow has printed "Done.".
WorkflowDone ==
    /\ Returned("get_object_download_url", WorkflowBucket2, WorkflowObject)
    /\ download_file(last.returned[1]) = WorkflowFile

SpecWorkflow == InitWorkflow /\ [][WorkflowNext]_vars

\* multipart_upload_file of a file of file_size bytes in parts of part_size
\* bytes, on the bucket and object of the fixture.
UploadFileSizes ==
    {0, 1, 2, 3, 5, ListPartsPage, ListPartsPage + 1, 2 * ListPartsPage + 1,
     MAX_FILE_PART_NUMBER, MAX_FILE_PART_NUMBER + 1}

UploadPartSizes == {1, 2}

InitUploadFile ==
    /\ client = "open"
    /\ resource = "open"
    /\ standby = ConstructedAdapter
    /\ channel = Unsubscribed
    /\ buckets = ExistingBuckets
    /\ objects = <<>>
    /\ uploads = <<>>
    /\ last = Call("multipart_upload_file", 0, "b1", "o1")
    /\ aborted = {}
    /\ \E file_size \in UploadFileSizes, part_size \in UploadPartSizes :
          pc = [c \in Clients |->
                  IF c = "c1"
                  THEN [at |-> "multipart_upload_file", bucket_id |-> "b1",
                        object_id |-> "o1", returned |-> <<file_size, part_size>>]
                  ELSE Idle]

UploadFileSize == pc["c1"].returned[1]

UploadPartSize == pc["c1"].returned[2]

\* check_part_size: file_size / anticipated_size > MAX_FILE_PART_NUMBER raises.
check_part_size(file_size, anticipated_size) ==
    /\ last' = IF file_size > MAX_FILE_PART_NUMBER * anticipated_size
               THEN Raised(Call("check_part_size", 0, "b1", "o1"), "RuntimeError", <<>>)
               ELSE Call("check_part_size", 0, "b1", "o1")
    /\ UNCHANGED <<pc, client, resource, standby, channel, backend, aborted>>

UploadFile_check_part_size ==
    /\ last.op = "multipart_upload_file"
    /\ check_part_size(UploadFileSize, UploadPartSize)

UploadFile_init_multipart_upload ==
    /\ Returned("check_part_size", "b1", "o1")
    /\ init_multipart_upload("b1", "o1")

\* The part number the loop is at, and what test_file.read(part_size) gives
\* there: the bytes left, part_size of them at most.
UploadFilePartNumber ==
    IF last.op = "init_multipart_upload" THEN 1 ELSE last.returned[1].PartNumber + 1

UploadFileRead ==
    LET left == UploadFileSize - (UploadFilePartNumber - 1) * UploadPartSize IN
    IF left > UploadPartSize THEN UploadPartSize ELSE IF left > 0 THEN left ELSE 0

UploadFileInLoop ==
    \/ Returned("init_multipart_upload", "b1", "o1")
    \/ Returned("upload_part", "b1", "o1")

UploadFile_upload_part ==
    /\ UploadFileInLoop
    /\ UploadFilePartNumber <= MAX_FILE_PART_NUMBER
    /\ UploadFileRead > 0
    /\ upload_part(WorkflowUploadId, "b1", "o1", UploadFileRead, UploadFilePartNumber)

UploadFile_complete_multipart_upload ==
    /\ UploadFileInLoop
    /\ UploadFilePartNumber > MAX_FILE_PART_NUMBER \/ UploadFileRead = 0
    /\ complete_multipart_upload(WorkflowUploadId, "b1", "o1", <<>>, <<>>)

UploadFileNext ==
    \/ UploadFile_check_part_size
    \/ UploadFile_init_multipart_upload
    \/ UploadFile_upload_part
    \/ UploadFile_complete_multipart_upload

SpecUploadFile == InitUploadFile /\ [][UploadFileNext]_vars

\* The adapter over a backend whose calls can fail with any error code.
Fault_bucket_op ==
    \E op \in {"does_bucket_exist", "create_bucket", "delete_bucket"},
       b \in BucketIds, error_code \in ErrorCodes :
        client_error(Call(op, 0, b, None), error_code)

Fault_object_op ==
    \E op \in {"does_object_exist", "get_object_upload_url",
                "get_object_download_url", "delete_object", "init_multipart_upload"},
       b \in BucketIds, o \in ObjectIds, error_code \in ErrorCodes :
        client_error(Call(op, 0, b, o), error_code)

Fault_copy_object ==
    \E sb \in BucketIds, so \in ObjectIds, db \in BucketIds, do \in ObjectIds,
       error_code \in ErrorCodes :
        client_error([Call("copy_object", 0, sb, so) EXCEPT !.args = <<db, do>>],
                     error_code)

Fault_upload_op ==
    \E op \in {"get_part_upload_url", "abort_multipart_upload",
                "complete_multipart_upload"},
       u \in 1..Len(uploads), b \in BucketIds, o \in ObjectIds,
       error_code \in ErrorCodes :
        client_error(Call(op, u, b, o), error_code)

Fault_delete_bucket ==
    \E b \in BucketIds, delete_content \in BOOLEAN, error_code \in ErrorCodes :
        delete_bucket_client_error(b, delete_content, error_code)

Fault_upload_file ==
    \E b \in ExistingBuckets, o \in ObjectIds : upload_file(b, o, <<1>>)

Fault_init_multipart_upload ==
    /\ Len(uploads) < MaxSessionUploads
    /\ Init_multipart_upload

FaultNext ==
    \/ Fault_upload_file
    \/ Fault_init_multipart_upload
    \/ Upload_part
    \/ Fault_bucket_op
    \/ Fault_delete_bucket
    \/ Fault_object_op
    \/ Fault_copy_object
    \/ Fault_upload_op

SpecFault == Init /\ [][FaultNext]_vars

\* A topic with or without a schema, subscribed to and delivered messages.
InitPubSub ==
    /\ client = None
    /\ resource = None
    /\ standby = ConstructedAdapter
    /\ channel \in {AmqpTopic(json_schema) : json_schema \in {<<>>, <<"schema">>}}
    /\ buckets = ExistingBuckets
    /\ objects = <<>>
    /\ uploads = <<>>
    /\ last = Call("__init__", 0, None, None)
    /\ aborted = {}
    /\ pc = [c \in Clients |-> Idle]

PubSub_subscribe == \E run_forever \in BOOLEAN : subscribe(run_forever)

PubSub_callback == \E message \in Messages : callback(message)

PubSubNext ==
    \/ PubSub_subscribe
    \/ PubSub_callback

SpecPubSub == InitPubSub /\ [][PubSubNext]_vars

\* The validators on strings: all strings of up to MaxIdLen characters of an
\* alphabet with one character of each kind, and strings around the longest
\* length allowed, made of a run of "a" with at most one character before
\* and after it.
Alphabet == {"a", "A", "0", "-", ".", "_", Newline}

StringsOfLength(n) == [1..n -> Alphabet]

Run(n) == [i \in 1..n |-> "a"]

IdStrings ==
    (UNION {StringsOfLength(n) : n \in 0..MaxIdLen})
    \cup {p \o Run(n) \o q : p \in StringsOfLength(0) \cup StringsOfLength(1),
                              q \in StringsOfLength(0) \cup StringsOfLength(1),
                              n \in 61..64}

\* A string is at hand, not yet validated.
InitValidate ==
    /\ client = None
    /\ resource = None
    /\ standby = ConstructedAdapter
    /\ channel = Unsubscribed
    /\ buckets = {}
    /\ objects = <<>>
    /\ uploads = <<>>
    /\ \E id \in IdStrings : last = [Call("str", 0, None, None) EXCEPT !.args = id]
    /\ aborted = {}
    /\ pc = [c \in Clients |-> Idle]

Validate_bucket_id == validate_bucket_id_call(last.args)

Validate_object_id == validate_object_id_call(last.args)

ValidateNext == Validate_bucket_id \/ Validate_object_id

SpecValidate == InitValidate /\ [][ValidateNext]_vars

\* The adapter from construction on, entered and left any number of times,
\* every Port method called with ids of existing and of missing buckets and
\* objects and with malformed ids.
SessionBucketIds == BucketIds \cup MalformedBucketIds
SessionObjectIds == {"o1"} \cup MalformedObjectIds

Session_does_bucket_exist == \E b \in SessionBucketIds : does_bucket_exist_call(b)

Session_does_object_exist ==
    \E b \in SessionBucketIds, o \in SessionObjectIds : does_object_exist_call(b, o)

Session_create_bucket == \E b \in SessionBucketIds : create_bucket(b)

Session_delete_bucket ==
    \E b \in SessionBucketIds, delete_content \in BOOLEAN : delete_bucket(b, delete_content)

Session_get_object_upload_url ==
    \E b \in SessionBucketIds, o \in SessionObjectIds : get_object_upload_url(b, o)

Session_get_object_download_url ==
    \E b \in SessionBucketIds, o \in SessionObjectIds : get_object_download_url(b, o)

Session_copy_object ==
    \E sb \in SessionBucketIds, so \in SessionObjectIds,
       db \in SessionBucketIds, do \in SessionObjectIds : copy_object(sb, so, db, do)

Session_delete_object ==
    \E b \in SessionBucketIds, o \in SessionObjectIds : delete_object(b, o)

Session_init_multipart_upload ==
    /\ client = None \/ Len(uploads) < MaxSessionUploads
    /\ \E b \in SessionBucketIds, o \in SessionObjectIds : init_multipart_upload(b, o)

Session_upload_file ==
    \E b \in SessionBucketIds, o \in SessionObjectIds : upload_file(b, o, <<1>>)

Session_get_part_upload_url ==
    \E u \in UploadIds, b \in SessionBucketIds, o \in SessionObjectIds :
        get_part_upload_url(u, b, o, 1)

Session_upload_part ==
    \E u \in UploadIds, b \in SessionBucketIds, o \in SessionObjectIds :
        upload_part(u, b, o, DEFAULT_PART_SIZE, 1)

Session_complete_multipart_upload ==
    \E u \in UploadIds, b \in SessionBucketIds, o \in SessionObjectIds :
        complete_multipart_upload(u, b, o, <<>>, <<>>)

Session_abort_multipart_upload ==
    \E u \in UploadIds, b \in SessionBucketIds, o \in SessionObjectIds :
        abort_multipart_upload(u, b, o)

SessionNext ==
    \/ Enter
    \/ Exit
    \/ Session_does_bucket_exist
    \/ Session_does_object_exist
    \/ Session_create_bucket
    \/ Session_delete_bucket
    \/ Session_get_object_upload_url
    \/ Session_upload_file
    \/ Session_get_object_download_url
    \/ Session_copy_object
    \/ Session_delete_object
    \/ Session_init_multipart_upload
    \/ Session_get_part_upload_url
    \/ Session_upload_part
    \/ Session_complete_multipart_upload
    \/ Session_abort_multipart_upload

SpecSession == Constructed /\ [][SessionNext]_vars

\* ------------------------------------------------------------------ claims
\* The active uploads the backend holds for the object.
ActiveFor(bucket_id, object_id) ==
    {u \in ActiveUploadIds :
        uploads[u].Bucket = bucket_id /\ uploads[u].Key = object_id}

IsCall(call, op, upload_id, bucket_id, object_id) ==
    /\ call.op = op
    /\ call.upload_id = upload_id
    /\ call.bucket_id = bucket_id
    /\ call.object_id = object_id

ValidPartNumbers == {n \in PartNumbers : 0 < n /\ n <= MAX_FILE_PART_NUMBER}

\* C1: init_multipart_upload(bucket_id, object_id) raises
\* MultiPartUploadAlreadyExistsError and creates no upload exactly when the
\* backend holds an active upload for the same bucket and object; uploads of
\* other objects do not count; otherwise it creates one upload, leaves the
\* others as they are, and returns the new upload's id.
C1_InitStep(b, o) ==
    IsCall(last', "init_multipart_upload", 0, b, o) =>
        IF ActiveFor(b, o) # {}
        THEN /\ last'.result = "MultiPartUploadAlreadyExistsError"
             /\ last'.returned = <<>>
             /\ uploads' = uploads
        ELSE /\ last'.result = "ok"
             /\ Len(uploads') = Len(uploads) + 1
             /\ SubSeq(uploads', 1, Len(uploads)) = uploads
             /\ last'.returned = <<Len(uploads')>>
             /\ ActiveFor(b, o)' = {Len(uploads')}

C1_InitRaisesExactlyWhenUploadActive ==
    [][\A b \in ExistingBuckets, o \in ObjectIds : C1_InitStep(b, o)]_vars

\* An init went through while an upload of another object of the same bucket
\* was active.
C1_Witness ==
    /\ last.op = "init_multipart_upload"
    /\ last.result = "ok"
    /\ \E u \in ActiveUploadIds :
          /\ u < last.returned[1]
          /\ uploads[u].Bucket = last.bucket_id
          /\ uploads[u].Key # last.object_id

\* C2: when uploads are started through init_multipart_upload only and the
\* calls run one after the other, every bucket and object has at most one
\* active upload in every reachable state.
C2_AtMostOneActiveUpload ==
    \A b \in ExistingBuckets, o \in ObjectIds : Cardinality(ActiveFor(b, o)) <= 1

\* An upload has been aborted, another one completed, and a third one is the
\* one active upload of its object and holds a part.
C2_Witness ==
    /\ \E u, v \in 1..Len(uploads) :
          uploads[u].State = "aborted" /\ uploads[v].State = "completed"
    /\ \E u \in ActiveUploadIds :
          /\ uploads[u].Parts # EmptyParts
          /\ ActiveFor(uploads[u].Bucket, uploads[u].Key) = {u}

\* C3: when the backend holds more than one active upload for the object,
\* get_part_upload_url with a valid part number and complete_multipart_upload
\* raise MultipleActiveUploadsError with the ids of all active uploads of the
\* object, whatever upload id they are called with; no part URL is issued, no
\* completion is sent, the backend is unchanged.
C3_Refused(b, o) ==
    /\ last'.result = "MultipleActiveUploadsError"
    /\ SeqToSet(last'.upload_ids) = ActiveFor(b, o)
    /\ Len(last'.upload_ids) = Cardinality(ActiveFor(b, o))
    /\ last'.returned = <<>>
    /\ "generate_presigned_url" \notin SeqToSet(last'.calls)
    /\ "complete_multipart_upload" \notin SeqToSet(last'.calls)
    /\ UNCHANGED backend

C3_Step(u, b, o) ==
    Cardinality(ActiveFor(b, o)) > 1 =>
        /\ \A n \in ValidPartNumbers :
              (IsCall(last', "get_part_upload_url", u, b, o)
                  /\ get_part_upload_url(u, b, o, n)) => C3_Refused(b, o)
        /\ IsCall(last', "complete_multipart_upload", u, b, o) => C3_Refused(b, o)

C3_MultipleActiveUploadsDetected ==
    [][\A u \in UploadIds, b \in ExistingBuckets, o \in ObjectIds : C3_Step(u, b, o)]_vars

\* A call with an upload id that is not among the two or more active uploads
\* of the object was refused with their ids.
C3_Witness ==
    /\ last.op \in {"get_part_upload_url", "complete_multipart_upload"}
    /\ last.result = "MultipleActiveUploadsError"
    /\ Len(last.upload_ids) >= 2
    /\ last.upload_id \notin SeqToSet(last.upload_ids)

\* C4: abort_multipart_upload of an upload that is active for the object never
\* raises MultipleActiveUploadsError, however many other uploads of the object
\* are active.
C4_AbortNeverRaisesMultipleActive ==
    [][\A u \in UploadIds, b \in ExistingBuckets, o \in ObjectIds :
          (IsCall(last', "abort_multipart_upload", u, b, o) /\ u \in ActiveFor(b, o))
              => last'.result # "MultipleActiveUploadsError"]_vars

\* C5: when two uploads are active for an object, aborting one of them returns
\* normally and leaves the other one as it is; and once an abort for the
\* object has returned and exactly one upload of the object is active,
\* get_part_upload_url and complete_multipart_upload on it do not raise
\* MultipleActiveUploadsError: it gets its part URLs, its parts are stored, and
\* with parts it is completed.
C5_AbortOneOfTwo(u, r, b, o) ==
    (IsCall(last', "abort_multipart_upload", u, b, o) /\ ActiveFor(b, o) = {u, r})
        => /\ last'.result = "ok"
           /\ u \in aborted'
           /\ ActiveFor(b, o)' = {r}
           /\ uploads'[r] = uploads[r]

C5_RemainingUsable(r, b, o) ==
    (/\ ActiveFor(b, o) = {r}
     /\ \E u \in aborted : uploads[u].Bucket = b /\ uploads[u].Key = o)
        => /\ \A n \in ValidPartNumbers :
                 (IsCall(last', "get_part_upload_url", r, b, o)
                     /\ get_part_upload_url(r, b, o, n)) =>
                     /\ last'.result = "ok"
                     /\ last'.returned = <<[Bucket |-> b, Key |-> o,
                                           UploadId |-> r, PartNumber |-> n]>>
           /\ IsCall(last', "upload_part", r, b, o) =>
                 /\ last'.result = "ok"
                 /\ uploads'[r].Parts # EmptyParts
           /\ IsCall(last', "complete_multipart_upload", r, b, o) =>
                 /\ last'.result # "MultipleActiveUploadsError"
                 /\ uploads[r].Parts # EmptyParts =>
                       /\ last'.result = "ok"
                       /\ uploads'[r].State = "completed"
                       /\ <<b, o>> \in DOMAIN objects'

C5_AbortResolvesMultipleActive ==
    [][\A b \in ExistingBuckets, o \in ObjectIds, r \in UploadIds :
          /\ \A u \in UploadIds \ {r} : C5_AbortOneOfTwo(u, r, b, o)
          /\ C5_RemainingUsable(r, b, o)]_vars

\* An upload was completed that had been active together with a later upload
\* of the same object whose abort returned normally.
C5_Witness ==
    /\ last.op = "complete_multipart_upload"
    /\ last.result = "ok"
    /\ \E u \in aborted :
          /\ u > last.upload_id
          /\ uploads[u].Bucket = last.bucket_id
          /\ uploads[u].Key = last.object_id

\* C6 as claimed: once abort_multipart_upload of an upload has returned
\* normally, get_part_upload_url with that upload id and a valid part number
\* raises MultiPartUploadNotFoundError.
C6_AbortedAlwaysNotFound ==
    [][\A u \in UploadIds, b \in ExistingBuckets, o \in ObjectIds, n \in ValidPartNumbers :
          (/\ u \in aborted
           /\ IsCall(last', "get_part_upload_url", u, b, o)
           /\ get_part_upload_url(u, b, o, n))
              => last'.result = "MultiPartUploadNotFoundError"]_vars

\* C6 as amended: once abort_multipart_upload of an upload has returned
\* normally, get_part_upload_url with that upload id and a valid part number
\* (part 1 or a part not used yet) issues no URL: it raises
\* MultiPartUploadNotFoundError, unless more than one upload is active for the
\* object named in the call, when it raises MultipleActiveUploadsError.
C6_AbortedNotFoundUnlessMultipleActive ==
    [][\A u \in UploadIds, b \in ExistingBuckets, o \in ObjectIds, n \in ValidPartNumbers :
          (/\ u \in aborted
           /\ IsCall(last', "get_part_upload_url", u, b, o)
           /\ get_part_upload_url(u, b, o, n))
              => /\ last'.returned = <<>>
                 /\ last'.result = IF Cardinality(ActiveFor(b, o)) > 1
                                   THEN "MultipleActiveUploadsError"
                                   ELSE "MultiPartUploadNotFoundError"]_vars

\* A part URL was refused for an upload whose abort had returned normally.
C6_Witness ==
    /\ last.op = "get_part_upload_url"
    /\ last.upload_id \in aborted
    /\ last.result = "MultiPartUploadNotFoundError"

TerminalOps == {"abort_multipart_upload", "complete_multipart_upload"}

\* After a complete or abort that returned normally the upload is not active.
C7_TerminatedNotActive(u) ==
    (last'.op \in TerminalOps /\ last'.upload_id = u /\ last'.result = "ok")
        => u \notin ActiveUploadIds'

\* The init went through with a new upload, the only active one of the object.
C7_InitSucceeds(b, o) ==
    /\ last'.result = "ok"
    /\ last'.returned = <<Len(uploads) + 1>>
    /\ ActiveFor(b, o)' = {Len(uploads) + 1}

\* The only active upload of an object takes a part and, with parts, is
\* completed into the object, whether or not the object exists already.
C7_UploadUsable(r, b, o) ==
    ActiveFor(b, o) = {r} =>
        /\ IsCall(last', "upload_part", r, b, o) =>
              last'.result = "ok" /\ uploads'[r].Parts # EmptyParts
        /\ (IsCall(last', "complete_multipart_upload", r, b, o)
                /\ uploads[r].Parts # EmptyParts) =>
              /\ last'.result = "ok"
              /\ r \notin ActiveUploadIds'
              /\ <<b, o>> \in DOMAIN objects'
              /\ Len(objects'[<<b, o>>]) = Cardinality(DOMAIN uploads[r].Parts)

\* C7 as claimed: after complete_multipart_upload or abort_multipart_upload of
\* an upload has returned normally the upload is not active, and a following
\* init_multipart_upload for the same bucket and object succeeds.
C7_InitAfterTerminalSucceeds ==
    [][\A u \in UploadIds, b \in ExistingBuckets, o \in ObjectIds :
          /\ C7_TerminatedNotActive(u)
          /\ (/\ last.op \in TerminalOps
              /\ last.result = "ok"
              /\ IsCall(last, last.op, u, b, o)
              /\ IsCall(last', "init_multipart_upload", 0, b, o))
                 => C7_InitSucceeds(b, o)]_vars

\* C7 as amended: after complete_multipart_upload or abort_multipart_upload of
\* an upload has returned normally the upload is not active, and a following
\* init_multipart_upload for the same bucket and object succeeds provided no
\* other upload is active for that object; the new upload takes parts and is
\* completed, also when the object exists already.
C7_InitAfterTerminalSucceedsIfNoOtherActive ==
    [][\A u \in UploadIds, b \in ExistingBuckets, o \in ObjectIds :
          /\ C7_TerminatedNotActive(u)
          /\ (/\ last.op \in TerminalOps
              /\ last.result = "ok"
              /\ IsCall(last, last.op, u, b, o)
              /\ ActiveFor(b, o) = {}
              /\ IsCall(last', "init_multipart_upload", 0, b, o))
                 => C7_InitSucceeds(b, o)
          /\ C7_UploadUsable(u, b, o)]_vars

\* A second upload of an object was completed after the first one had been
\* completed and the object existed.
C7_Witness ==
    /\ last.op = "complete_multipart_upload"
    /\ last.result = "ok"
    /\ \E u \in 1..(last.upload_id - 1) :
          /\ uploads[u].State = "completed"
          /\ uploads[u].Bucket = last.bucket_id
          /\ uploads[u].Key = last.object_id

\* The sizes of the parts of an upload, in the order of their part numbers.
PartSizes(u) ==
    LET ps == uploads[u].Parts IN
    [i \in 1..Cardinality(DOMAIN ps) |-> ps[SortedSeq(DOMAIN ps)[i]]]

\* C8: when the check rejects the part inventory of the upload,
\* complete_multipart_upload raises MultiPartUploadConfirmError with the
\* check's reason and sends no completion to the backend: the upload stays
\* active with its parts, and no object is created or replaced.
C8_CheckRejectsWithoutBackendCall ==
    [][\A q \in Optional(CheckQuantities), s \in Optional(CheckSizes) :
          LET listed == BackendListParts("b1", "o1", 1)
              rejected == _check_uploaded_parts(listed.Parts, q, s)
          IN  (/\ last'.anticipated = <<q, s>>
               /\ complete_multipart_upload(1, "b1", "o1", q, s)
               /\ ActiveFor("b1", "o1") = {1}
               /\ rejected # None)
                  => /\ last'.result = "MultiPartUploadConfirmError"
                     /\ last'.reason = rejected
                     /\ "complete_multipart_upload" \notin SeqToSet(last'.calls)
                     /\ 1 \in ActiveUploadIds'
                     /\ uploads' = uploads
                     /\ objects' = objects]_vars

\* A completion was rejected for part sizes, and the upload is active with
\* its parts while the object stored before is what it was.
C8_Witness ==
    /\ last.op = "complete_multipart_upload"
    /\ last.result = "MultiPartUploadConfirmError"
    /\ last.reason = "A part has a size different from the first part."
    /\ 1 \in ActiveUploadIds
    /\ Len(PartSizes(1)) = 3
    /\ objects = (<<"b1", "o1">> :> <<DEFAULT_PART_SIZE>>)

\* The part sizes complete_multipart_upload accepts when nothing is
\* anticipated: there is a part, every part but the last is as large as the
\* first, and the last is not larger than the first.
C9_Consistent(sizes) ==
    /\ Len(sizes) >= 1
    /\ \A i \in 1..(Len(sizes) - 1) : sizes[i] = sizes[1]
    /\ sizes[Len(sizes)] <= sizes[1]

\* C9: without an anticipated quantity and size, complete_multipart_upload on
\* the one active upload of the object succeeds, and stores the parts as the
\* object, if and only if the part sizes are consistent; otherwise it raises
\* MultiPartUploadConfirmError.
C9_CompletesIffPartsConsistent ==
    [][(/\ last'.anticipated = <<<<>>, <<>>>>
        /\ complete_multipart_upload(1, "b1", "o1", <<>>, <<>>)
        /\ ActiveFor("b1", "o1") = {1})
           => IF C9_Consistent(PartSizes(1))
              THEN /\ last'.result = "ok"
                   /\ 1 \notin ActiveUploadIds'
                   /\ objects' = (<<"b1", "o1">> :> PartSizes(1))
              ELSE /\ last'.result = "MultiPartUploadConfirmError"
                   /\ UNCHANGED backend]_vars

\* An upload of three parts, the last one smaller than the two before it, was
\* completed with nothing anticipated.
C9_Witness ==
    /\ last.op = "complete_multipart_upload"
    /\ last.result = "ok"
    /\ last.anticipated = <<<<>>, <<>>>>
    /\ LET content == objects[<<"b1", "o1">>] IN
          /\ Len(content) = 3
          /\ content[1] = content[2]
          /\ content[3] < content[1]

\* C10: when a part quantity is anticipated and the number of uploaded parts
\* is another one, complete_multipart_upload raises
\* MultiPartUploadConfirmError, whatever the parts' sizes and the anticipated
\* size are, and the backend is unchanged.
C10_QuantityMismatchRejected ==
    [][\A q \in CheckQuantities, s \in Optional(CheckSizes) :
          (/\ last'.anticipated = <<<<q>>, s>>
           /\ complete_multipart_upload(1, "b1", "o1", <<q>>, s)
           /\ ActiveFor("b1", "o1") = {1}
           /\ Len(PartSizes(1)) # q)
              => /\ last'.result = "MultiPartUploadConfirmError"
                 /\ UNCHANGED backend]_vars

\* A completion was rejected for more parts than anticipated, although the
\* sizes of the parts agree with each other and with the anticipated size.
C10_Witness ==
    /\ last.op = "complete_multipart_upload"
    /\ last.result = "MultiPartUploadConfirmError"
    /\ last.reason = "Found a part quantity other than expected."
    /\ 1 \in ActiveUploadIds
    /\ C9_Consistent(PartSizes(1))
    /\ last.anticipated[1] # <<>>
    /\ last.anticipated[1][1] >= 1
    /\ Len(PartSizes(1)) > last.anticipated[1][1]
    /\ last.anticipated[2] = <<PartSizes(1)[1]>>

\* The part sizes that agree with an anticipated part size: no part is larger
\* than it, and with more than one part the first part has that size.
C11_AgreesWithSize(sizes, size) ==
    /\ \A i \in 1..Len(sizes) : sizes[i] <= size
    /\ Len(sizes) > 1 => sizes[1] = size

\* C11: with an anticipated part size, complete_multipart_upload on the one
\* active upload of the object succeeds only if the part sizes agree with
\* it, whether or not a part quantity is anticipated; every other inventory
\* raises MultiPartUploadConfirmError.
C11_AnticipatedSizeEnforced ==
    [][\A q \in Optional(CheckQuantities), s \in CheckSizes :
          (/\ last'.anticipated = <<q, <<s>>>>
           /\ complete_multipart_upload(1, "b1", "o1", q, <<s>>)
           /\ ActiveFor("b1", "o1") = {1}
           /\ ~C11_AgreesWithSize(PartSizes(1), s))
              => last'.result = "MultiPartUploadConfirmError"]_vars

\* C12: get_part_upload_url raises ValueError exactly when the part number
\* is not in 1..10000, and it does so before it asks the backend anything,
\* whether or not the upload, the object and the bucket exist; with a part
\* number in the range the one active upload of the object gets its URL.
C12_ValueErrorIffPartNumberOutOfRange ==
    [][\A u \in UploadIds, b \in BucketIds, o \in ObjectIds, n \in BoundaryPartNumbers :
          (IsCall(last', "get_part_upload_url", u, b, o)
              /\ get_part_upload_url(u, b, o, n))
          => IF n < 1 \/ n > 10000
             THEN /\ last'.result = "ValueError"
                  /\ last'.calls = <<>>
                  /\ last'.returned = <<>>
             ELSE /\ last'.result # "ValueError"
                  /\ ActiveFor(b, o) = {u} =>
                        /\ last'.result = "ok"
                        /\ last'.returned[1].PartNumber = n]_vars

\* A part number out of the range was refused for the one active upload of
\* an object, which holds a part already.
C12_Witness ==
    /\ last.op = "get_part_upload_url"
    /\ last.result = "ValueError"
    /\ ActiveFor(last.bucket_id, last.object_id) = {last.upload_id}
    /\ uploads[last.upload_id].Parts # EmptyParts

LookupOps == {"get_part_upload_url", "complete_multipart_upload"}

\* C13 as claimed: get_part_upload_url and complete_multipart_upload raise
\* BucketNotFoundError for a bucket that does not exist, raise
\* MultiPartUploadNotFoundError for an upload id that is not an active upload
\* of the bucket and object named, and raise nothing for the one active
\* upload of the object.
C13_ExactTripleRaisesNothing ==
    [][\A u \in UploadIds, b \in BucketIds, o \in ObjectIds :
          (last'.op \in LookupOps /\ IsCall(last', last'.op, u, b, o))
          => IF b \notin buckets
             THEN last'.result = "BucketNotFoundError"
             ELSE IF u \notin ActiveFor(b, o)
             THEN last'.result = "MultiPartUploadNotFoundError"
             ELSE ActiveFor(b, o) = {u} => last'.result = "ok"]_vars

\* C13 as amended: for a bucket that does not exist they raise
\* BucketNotFoundError; for an upload id that is not an active upload of the
\* bucket and object named they raise MultiPartUploadNotFoundError, unless
\* more than one upload of that object is active, when they raise
\* MultipleActiveUploadsError; for the one active upload of the object
\* get_part_upload_url returns the URL and complete_multipart_upload raises
\* nothing but MultiPartUploadConfirmError, and that exactly when the check
\* rejects the parts. Every call that raises leaves the backend unchanged.
C13_ExactTripleOrLookupError ==
    [][\A u \in UploadIds, b \in BucketIds, o \in ObjectIds :
          (last'.op \in LookupOps /\ IsCall(last', last'.op, u, b, o))
          => /\ last'.result # "ok" => UNCHANGED backend
             /\ IF b \notin buckets
                THEN last'.result = "BucketNotFoundError"
                ELSE IF Cardinality(ActiveFor(b, o)) > 1
                THEN last'.result = "MultipleActiveUploadsError"
                ELSE IF u \notin ActiveFor(b, o)
                THEN last'.result = "MultiPartUploadNotFoundError"
                ELSE IF last'.op = "get_part_upload_url"
                THEN /\ last'.result = "ok"
                     /\ last'.returned = <<[Bucket |-> b, Key |-> o,
                                           UploadId |-> u, PartNumber |-> 1]>>
                ELSE last'.result = IF C9_Consistent(PartSizes(u))
                                    THEN "ok"
                                    ELSE "MultiPartUploadConfirmError"]_vars

\* An upload id that is the one active upload of another object of the
\* bucket was not found under the object named in the call.
C13_Witness ==
    /\ last.op \in LookupOps
    /\ last.result = "MultiPartUploadNotFoundError"
    /\ last.upload_id \in ActiveUploadIds
    /\ uploads[last.upload_id].Bucket = last.bucket_id
    /\ uploads[last.upload_id].Key # last.object_id
    /\ ActiveFor(last.bucket_id, uploads[last.upload_id].Key) = {last.upload_id}
    /\ Cardinality(ActiveFor(last.bucket_id, last.object_id)) = 1

\* C14: abort_multipart_upload of an active upload of the object looks the
\* upload up again after the backend's abort: when the upload is not listed
\* any more it returns normally, when the upload is still listed with a part
\* it raises MultiPartUploadAbortError, and it never returns normally while
\* parts of the upload remain.
C14_AbortVerified ==
    [][\A u \in UploadIds, b \in ExistingBuckets, o \in ObjectIds :
          (IsCall(last', "abort_multipart_upload", u, b, o) /\ u \in ActiveFor(b, o))
          => /\ "abort_multipart_upload" \in SeqToSet(last'.calls)
             /\ u \notin ActiveUploadIds' => last'.result = "ok"
             /\ (u \in ActiveUploadIds' /\ uploads'[u].Parts # EmptyParts)
                   => last'.result = "MultiPartUploadAbortError"
             /\ last'.result = "ok" => uploads'[u].Parts = EmptyParts]_vars

\* The same with at most one other active upload of the object when the
\* upload is gone, and none when parts remain.
C14_AbortVerifiedWhenExclusive ==
    [][\A u \in UploadIds, b \in ExistingBuckets, o \in ObjectIds :
          (IsCall(last', "abort_multipart_upload", u, b, o) /\ u \in ActiveFor(b, o))
          => /\ (u \notin ActiveUploadIds' /\ Cardinality(ActiveFor(b, o)') <= 1)
                   => last'.result = "ok"
             /\ (u \in ActiveUploadIds' /\ uploads'[u].Parts # EmptyParts
                    /\ ActiveFor(b, o)' = {u})
                   => last'.result = "MultiPartUploadAbortError"
             /\ last'.result = "ok" => uploads'[u].Parts = EmptyParts]_vars

\* An abort raised MultiPartUploadAbortError for an upload whose parts remain.
C14_AbortErrorRaised ==
    /\ last.op = "abort_multipart_upload"
    /\ last.result = "MultiPartUploadAbortError"
    /\ uploads[last.upload_id].Parts # EmptyParts

\* C15: with concurrent callers of init_multipart_upload a caller that found
\* no active upload creates its upload and gets its id whatever the others
\* have done since: the uploads that are active for the object by then stay
\* active next to the new one. A caller passes the check only while no upload
\* of the object is active, and is refused with
\* MultiPartUploadAlreadyExistsError when one is.
C15_CreateAfterCheckNotPrevented ==
    [][\A c \in Clients :
          /\ (pc[c].at = "checked" /\ pc'[c] # pc[c])
                => /\ pc'[c].at = "returned"
                   /\ pc'[c].returned = <<Len(uploads) + 1>>
                   /\ last'.result = "ok" /\ last'.returned = pc'[c].returned
                   /\ ActiveFor(pc[c].bucket_id, pc[c].object_id)'
                         = ActiveFor(pc[c].bucket_id, pc[c].object_id)
                              \cup {Len(uploads) + 1}
          /\ (pc[c].at # "checked" /\ pc'[c] # pc[c])
                => /\ UNCHANGED backend
                   /\ IF ActiveFor(pc'[c].bucket_id, pc'[c].object_id) = {}
                      THEN pc'[c].at = "checked"
                      ELSE /\ pc'[c].at = "raised"
                           /\ last'.result = "MultiPartUploadAlreadyExistsError"]_vars

\* Both callers have passed the check for the same object before either
\* created its upload, both got an upload id, and both uploads are active.
C15_Witness ==
    /\ \A c \in Clients : pc[c].at = "returned"
    /\ pc["c1"].bucket_id = pc["c2"].bucket_id
    /\ pc["c1"].object_id = pc["c2"].object_id
    /\ pc["c1"].returned # pc["c2"].returned
    /\ ActiveFor(pc["c1"].bucket_id, pc["c1"].object_id)
          = {pc["c1"].returned[1], pc["c2"].returned[1]}

\* C16: create_bucket with the id of an existing bucket raises
\* BucketAlreadyExists without a creation sent to the backend, the bucket and
\* its objects staying as they are, and otherwise creates the bucket;
\* delete_bucket with an id that no bucket has raises BucketNotFoundError and
\* changes nothing.
C16_BucketCollisions ==
    [][\A b \in BucketIds :
          /\ IsCall(last', "create_bucket", 0, b, None)
                => IF b \in buckets
                   THEN /\ last'.result = "BucketAlreadyExists"
                        /\ "create_bucket" \notin SeqToSet(last'.calls)
                        /\ UNCHANGED backend
                   ELSE /\ last'.result = "ok"
                        /\ buckets' = buckets \cup {b}
                        /\ UNCHANGED <<objects, uploads>>
          /\ (IsCall(last', "delete_bucket", 0, b, None) /\ b \notin buckets)
                => /\ last'.result = "BucketNotFoundError"
                   /\ "delete_bucket" \notin SeqToSet(last'.calls)
                   /\ UNCHANGED backend]_vars

\* A bucket created by create_bucket, and holding an object since, was
\* refused to a second create_bucket.
C16_Witness ==
    /\ last.op = "create_bucket"
    /\ last.result = "BucketAlreadyExists"
    /\ last.bucket_id \notin ExistingBuckets
    /\ ObjectsOf(last.bucket_id) # {}

\* C17: copy_object sends the copy to the backend only when the source
\* object exists and the destination object does not: it raises
\* BucketNotFoundError for a missing source bucket, ObjectNotFoundError for a
\* missing source object, BucketNotFoundError for a missing destination
\* bucket and ObjectAlreadyExistsError for an existing destination object
\* (the source itself included), in this order, with no copy sent and nothing
\* changed; otherwise the destination gets the content of the source.
C17_CopyOnlyFromExistingToAbsent ==
    [][\A sb \in BucketIds, so \in ObjectIds, db \in BucketIds, do \in ObjectIds :
          (IsCall(last', "copy_object", 0, sb, so) /\ last'.args = <<db, do>>)
          => /\ last'.result # "ok"
                   => "copy" \notin SeqToSet(last'.calls) /\ UNCHANGED backend
             /\ last'.result =
                   IF sb \notin buckets THEN "BucketNotFoundError"
                   ELSE IF <<sb, so>> \notin DOMAIN objects THEN "ObjectNotFoundError"
                   ELSE IF db \notin buckets THEN "BucketNotFoundError"
                   ELSE IF <<db, do>> \in DOMAIN objects THEN "ObjectAlreadyExistsError"
                   ELSE "ok"
             /\ last'.result = "ok"
                   => /\ objects' = (<<db, do>> :> objects[<<sb, so>>]) @@ objects
                      /\ UNCHANGED <<buckets, uploads>>]_vars

\* The copy of an existing object onto itself was refused.
C17_Witness ==
    /\ last.op = "copy_object"
    /\ last.result = "ObjectAlreadyExistsError"
    /\ <<last.bucket_id, last.object_id>> \in DOMAIN objects
    /\ last.args = <<last.bucket_id, last.object_id>>

\* C18: get_object_upload_url raises BucketNotFoundError when the bucket
\* does not exist and ObjectAlreadyExistsError when the object exists, with
\* no presigned POST generated; it returns the POST for the bucket and
\* object exactly when the bucket exists and the object does not.
C18_NoUploadUrlForExistingObject ==
    [][\A b \in BucketIds, o \in ObjectIds :
          IsCall(last', "get_object_upload_url", 0, b, o)
          => /\ UNCHANGED backend
             /\ IF b \notin buckets
                THEN last'.result = "BucketNotFoundError"
                ELSE IF <<b, o>> \in DOMAIN objects
                THEN last'.result = "ObjectAlreadyExistsError"
                ELSE /\ last'.result = "ok"
                     /\ last'.returned = <<[Bucket |-> b, Key |-> o]>>
             /\ last'.result # "ok"
                   => /\ last'.returned = <<>>
                      /\ "generate_presigned_post" \notin SeqToSet(last'.calls)]_vars

\* The upload URL was refused for an object that had been uploaded through
\* such a URL.
C18_Witness ==
    /\ last.op = "get_object_upload_url"
    /\ last.result = "ObjectAlreadyExistsError"
    /\ <<last.bucket_id, last.object_id>> \in DOMAIN objects
    /\ last.returned = <<>>

\* C19: get_object_download_url and delete_object look for the bucket before
\* the object: they raise BucketNotFoundError when the bucket does not
\* exist, ObjectNotFoundError when the bucket exists without the object, and
\* change nothing then; with both there, the one returns the URL and changes
\* nothing, and the other removes this object and no other.
C19_BucketBeforeObject ==
    [][\A b \in BucketIds, o \in ObjectIds :
          (last'.op \in {"get_object_download_url", "delete_object"}
              /\ IsCall(last', last'.op, 0, b, o))
          => IF b \notin buckets
             THEN last'.result = "BucketNotFoundError" /\ UNCHANGED backend
             ELSE IF <<b, o>> \notin DOMAIN objects
             THEN last'.result = "ObjectNotFoundError" /\ UNCHANGED backend
             ELSE /\ last'.result = "ok"
                  /\ UNCHANGED <<buckets, uploads>>
                  /\ IF last'.op = "delete_object"
                     THEN /\ DOMAIN objects' = (DOMAIN objects) \ {<<b, o>>}
                          /\ \A p \in DOMAIN objects' : objects'[p] = objects[p]
                     ELSE /\ objects' = objects
                          /\ last'.returned = <<[Bucket |-> b, Key |-> o]>>]_vars

\* One of several objects was deleted, the others are there.
C19_Witness ==
    /\ last.op = "delete_object"
    /\ last.result = "ok"
    /\ <<last.bucket_id, last.object_id>> \notin DOMAIN objects
    /\ ObjectsOf(last.bucket_id) # {}
    /\ \E p \in DOMAIN objects : p[1] # last.bucket_id

\* C20: delete_bucket without delete_content on a bucket that holds objects
\* raises BucketError and leaves the bucket and the objects as they are; with
\* delete_content it removes the objects of the bucket, then the bucket, and
\* no object of another bucket; a bucket without objects is deleted in both
\* modes.
C20_DeleteBucketContent ==
    [][\A b \in buckets, delete_content \in BOOLEAN :
          (IsCall(last', "delete_bucket", 0, b, None) /\ last'.args = <<delete_content>>)
          => IF ObjectsOf(b) # {} /\ ~delete_content
             THEN /\ last'.result = "BucketError"
                  /\ last'.calls[Len(last'.calls)] = "delete_bucket"
                  /\ UNCHANGED backend
             ELSE /\ last'.result = "ok"
                  /\ buckets' = buckets \ {b}
                  /\ DOMAIN objects' = (DOMAIN objects) \ ObjectsOf(b)
                  /\ \A p \in DOMAIN objects' : objects'[p] = objects[p]
                  /\ UNCHANGED uploads
                  /\ ObjectsOf(b) # {}
                        => \E i \in 1..Len(last'.calls) - 1 :
                              /\ last'.calls[i] = "delete_objects"
                              /\ last'.calls[i + 1] = "delete_bucket"]_vars

\* The deletion of a bucket that holds an object was refused.
C20_Witness ==
    /\ last.op = "delete_bucket"
    /\ last.args = <<FALSE>>
    /\ last.result = "BucketError"
    /\ last.bucket_id \in buckets
    /\ ObjectsOf(last.bucket_id) # {}

\* The calls that are Port methods or go through one.
SessionOps == {"__init__", "__enter__", "__exit__"}

\* C21: every Port method called while the session is not open, before
\* __enter__ or after __exit__, raises OutOfContextError and makes no backend
\* call, whatever its arguments, malformed ids included.
C21_OutOfContextWhenNotOpen ==
    [][(client = None /\ last'.op \notin SessionOps)
          => /\ last'.result = "OutOfContextError"
             /\ last'.calls = <<>>
             /\ UNCHANGED backend]_vars

\* The same for every call but delete_bucket with a malformed bucket id
\* after __exit__; no call reaches the backend or changes it while the
\* session is not open, and the methods work again after __enter__.
C21_OutOfContextUnlessDeleteBucketAfterExit ==
    [][/\ (client = None /\ last'.op \notin SessionOps)
             => /\ last'.calls = <<>>
                /\ UNCHANGED backend
                /\ last'.result =
                      IF /\ last'.op = "delete_bucket"
                         /\ resource # None
                         /\ last'.bucket_id \in MalformedBucketIds
                      THEN "BucketIdValidationError"
                      ELSE "OutOfContextError"
       /\ (client # None /\ last'.op \notin SessionOps)
             => last'.result # "OutOfContextError"]_vars

\* delete_bucket validated its bucket id after __exit__.
C21_ValidatedAfterExit ==
    /\ client = None
    /\ last.op = "delete_bucket"
    /\ last.result = "BucketIdValidationError"

MultipartOps ==
    {"init_multipart_upload", "get_part_upload_url",
     "complete_multipart_upload", "abort_multipart_upload"}

PortOps ==
    {"does_bucket_exist", "create_bucket", "delete_bucket", "does_object_exist",
     "get_object_upload_url", "get_object_download_url", "copy_object",
     "delete_object"} \cup MultipartOps

\* The validation error that belongs to the first malformed id among the
\* arguments of the call, or None.
MalformedIdError(call) ==
    IF call.bucket_id \in MalformedBucketIds THEN "BucketIdValidationError"
    ELSE IF call.object_id \in MalformedObjectIds THEN "ObjectIdValidationError"
    ELSE IF call.op # "copy_object" THEN None
    ELSE IF call.args[1] \in MalformedBucketIds THEN "BucketIdValidationError"
    ELSE IF call.args[2] \in MalformedObjectIds THEN "ObjectIdValidationError"
    ELSE None

C22_Rejected(ops) ==
    (client # None /\ last'.op \in ops /\ MalformedIdError(last') # None)
    => /\ last'.result = MalformedIdError(last')
       /\ last'.calls = <<>>
       /\ UNCHANGED backend

\* C22: every Port method that takes a bucket or object id, the four
\* multipart methods included, called in an open session with a malformed id
\* raises the validation error of that id, makes no backend call and changes
\* nothing.
C22_MalformedIdRejected == [][C22_Rejected(PortOps)]_vars

\* The same for the methods other than the four multipart methods.
C22_MalformedIdRejectedOutsideMultipart ==
    [][C22_Rejected(PortOps \ MultipartOps)]_vars

\* init_multipart_upload started an upload for a malformed object id.
C22_UploadForMalformedId ==
    /\ last.op = "init_multipart_upload"
    /\ last.object_id \in MalformedObjectIds
    /\ last.result = "ok"
    /\ last.returned # <<>>
    /\ uploads[last.returned[1]].Key = last.object_id

\* The strings the naming rule of buckets describes.
C23_WellFormed(id) ==
    /\ Len(id) \in 3..63
    /\ \A i \in 1..Len(id) : id[i] \in LowercaseLetters \cup Digits \cup {"-"}
    /\ id[1] # "-"
    /\ id[Len(id)] # "-"

\* C23: validate_bucket_id accepts the strings of 3 to 63 lowercase letters,
\* digits and hyphens that neither start nor end with a hyphen, and raises
\* BucketIdValidationError for every other string.
C23_BucketIdAcceptedIffWellFormed ==
    last.op = "validate_bucket_id"
    => last.result = IF C23_WellFormed(last.args) THEN "ok"
                     ELSE "BucketIdValidationError"

\* What is accepted besides: a newline after at least two lowercase letters,
\* digits and hyphens that do not start with a hyphen, 3 to 63 characters in
\* all.
C23_NewlineTerminated(id) ==
    /\ Len(id) \in 3..63
    /\ id[Len(id)] = Newline
    /\ \A i \in 1..(Len(id) - 1) : id[i] \in LowercaseLetters \cup Digits \cup {"-"}
    /\ id[1] # "-"

C23_BucketIdAcceptedIffWellFormedOrNewlineTerminated ==
    last.op = "validate_bucket_id"
    => last.result = IF C23_WellFormed(last.args) \/ C23_NewlineTerminated(last.args)
                     THEN "ok" ELSE "BucketIdValidationError"

\* A bucket id that ends with a hyphen and a newline was accepted.
C23_AcceptedWithNewline ==
    /\ last.op = "validate_bucket_id"
    /\ last.result = "ok"
    /\ last.args[Len(last.args)] = Newline
    /\ last.args[Len(last.args) - 1] = "-"

\* The strings the naming rule of objects describes.
C24_WellFormed(id) ==
    /\ Len(id) \in 3..63
    /\ \A i \in 1..Len(id) :
          id[i] \in LowercaseLetters \cup UppercaseLetters \cup Digits \cup {"-", "."}
    /\ id[1] \notin {"-", "."}
    /\ id[Len(id)] \notin {"-", "."}

\* C24: validate_object_id accepts the strings of 3 to 63 letters of either
\* case, digits, hyphens and dots that neither start nor end with a hyphen or
\* a dot, and raises ObjectIdValidationError for every other string.
C24_ObjectIdAcceptedIffWellFormed ==
    last.op = "validate_object_id"
    => last.result = IF C24_WellFormed(last.args) THEN "ok"
                     ELSE "ObjectIdValidationError"

\* What is accepted besides: a well-formed id of at least two characters
\* followed by a newline, 3 to 63 characters in all.
C24_NewlineTerminated(id) ==
    /\ Len(id) \in 3..63
    /\ id[Len(id)] = Newline
    /\ \A i \in 1..(Len(id) - 1) :
          id[i] \in LowercaseLetters \cup UppercaseLetters \cup Digits \cup {"-", "."}
    /\ id[1] \notin {"-", "."}
    /\ id[Len(id) - 1] \notin {"-", "."}

C24_ObjectIdAcceptedIffWellFormedOrNewlineTerminated ==
    last.op = "validate_object_id"
    => last.result = IF C24_WellFormed(last.args) \/ C24_NewlineTerminated(last.args)
                     THEN "ok" ELSE "ObjectIdValidationError"

\* An object id of 63 characters and a newline at its end was accepted.
C24_AcceptedWithNewline ==
    /\ last.op = "validate_object_id"
    /\ last.result = "ok"
    /\ Len(last.args) = 63
    /\ last.args[63] = Newline

\* The errors of the taxonomy of object_storage_dao the translator produces.
TranslatedErrors ==
    {"BucketNotFoundError", "BucketAlreadyExists", "ObjectNotFoundError",
     "ObjectAlreadyExistsError", "MultiPartUploadNotFoundError", "BucketError",
     "ObjectError", "ObjectStorageDaoError"}

\* The call of the step without what came of it.
CallOf(call) == [call EXCEPT !.result = "ok", !.returned = <<>>, !.calls = <<>>]

\* The step is a Port call whose backend call failed with the error code.
C25_ClientErrorStep(error_code) ==
    /\ last'.op \in PortOps
    /\ client_error(CallOf(last'), error_code)

\* C25: a client error of the backend during any Port method reaches the
\* caller as an error of the taxonomy made by the translator, for every error
\* code and every method; none is swallowed, none comes out untyped.
C25_ClientErrorsTranslated ==
    [][\A error_code \in ErrorCodes :
          C25_ClientErrorStep(error_code) => last'.result \in TranslatedErrors]_vars

\* The same but for does_object_exist, which answers False, and for the code
\* NoSuchUpload in the methods that hand the translator no upload id, where
\* ValueError is raised.
C25_ClientErrorsTranslatedWithExceptions ==
    [][\A error_code \in ErrorCodes :
          C25_ClientErrorStep(error_code)
          => IF last'.op = "does_object_exist"
             THEN last'.result = "ok" /\ last'.returned = <<FALSE>>
             ELSE IF error_code = <<"NoSuch", "Upload">>
                     /\ last'.op \notin {"get_part_upload_url", "abort_multipart_upload",
                                         "complete_multipart_upload"}
             THEN last'.result = "ValueError"
             ELSE last'.result \in TranslatedErrors]_vars

\* does_object_exist answered False for an object that exists.
C25_ClientErrorSwallowed ==
    /\ last.op = "does_object_exist"
    /\ last.returned = <<FALSE>>
    /\ <<last.bucket_id, last.object_id>> \in DOMAIN objects

\* copy_object raised ValueError.
C25_UntypedError ==
    /\ last.op = "copy_object"
    /\ last.result = "ValueError"

\* C26: the typical workflow on a store without buckets holds step by step:
\* no call raises; bucket1 exists after its creation; the object exists in
\* bucket1 after the upload and its download is the file; after the copy to
\* bucket2 and the deletion from bucket1 the object exists in bucket2 and not
\* in bucket1; bucket1 is deleted without delete_content and does not exist
\* any more; the download from bucket2 is the file; and the workflow never
\* stops before its end.
C26_TypicalWorkflowHolds ==
    /\ last.result = "ok"
    /\ last.op = "create_bucket" => last.bucket_id \in buckets
    /\ last.op = "does_bucket_exist"
          => last.returned = <<WorkflowBucket2 \notin buckets>>
    /\ last.op \in {"upload_file", "complete_multipart_upload"}
          => <<WorkflowBucket1, WorkflowObject>> \in DOMAIN objects
    /\ last.op = "does_object_exist"
          => last.returned = <<last.bucket_id = WorkflowBucket2
                                \/ WorkflowBucket2 \notin buckets>>
    /\ last.op = "get_object_download_url"
          => download_file(last.returned[1]) = WorkflowFile
    /\ last.op = "copy_object"
          => objects[<<WorkflowBucket2, WorkflowObject>>] = WorkflowFile
    /\ last.op = "delete_object"
          => DOMAIN objects = {<<WorkflowBucket2, WorkflowObject>>}
    /\ last.op = "delete_bucket" => buckets = {WorkflowBucket2}
    /\ WorkflowDone \/ ENABLED WorkflowNext

\* The end of the workflow with a file of two parts uploaded in parts.
C26_Witness ==
    /\ WorkflowDone
    /\ WorkflowMultipart
    /\ Len(WorkflowFile) = 2
    /\ buckets = {WorkflowBucket2}
    /\ objects = (<<WorkflowBucket2, WorkflowObject>> :> WorkflowFile)

\* What fetching the URL that get_object_download_url returns for the object
\* would yield in the state the step leads to, <<>> when the call would raise.
C27_Downloaded(b, o) ==
    LET exists == _assert_object_exists(b, o)' IN
    IF exists.raise # None THEN <<>>
    ELSE <<download_file([Bucket |-> b, Key |-> o])'>>

\* C27: round trip.  After a content has been uploaded as object o of
\* bucket b through the POST of get_object_upload_url, the URL of
\* get_object_download_url(b, o) yields this content; after copy_object the
\* destination yields what the source yields; every download URL yields what
\* is stored under its bucket and key; and what an object yields does not
\* change as long as the object exists.
C27_RoundTrip ==
    [][/\ \A b \in BucketIds, o \in ObjectIds, content \in Contents :
             (IsCall(last', "upload_file", 0, b, o) /\ last'.result = "ok"
                 /\ upload_file(b, o, content))
             => C27_Downloaded(b, o) = <<content>>
       /\ \A sb \in BucketIds, so \in ObjectIds, db \in BucketIds, do \in ObjectIds :
             (IsCall(last', "copy_object", 0, sb, so) /\ last'.args = <<db, do>>
                 /\ last'.result = "ok")
             => /\ C27_Downloaded(db, do) = <<objects[<<sb, so>>]>>
                /\ C27_Downloaded(sb, so) = <<objects[<<sb, so>>]>>
       /\ \A b \in BucketIds, o \in ObjectIds :
             (IsCall(last', "get_object_download_url", 0, b, o) /\ last'.result = "ok")
             => /\ <<b, o>> \in DOMAIN objects
                /\ download_file(last'.returned[1]) = objects[<<b, o>>]
       /\ \A p \in (DOMAIN objects) \cap (DOMAIN objects') : objects'[p] = objects[p]
      ]_vars

\* A download URL was given for an object, a copy of it is there under the
\* other object id, and an object of another content is there as well.
C27_Witness ==
    /\ last.op = "get_object_download_url"
    /\ last.result = "ok"
    /\ \E p \in DOMAIN objects :
          /\ p[2] # last.object_id
          /\ objects[p] = download_file(last.returned[1])
    /\ \E p \in DOMAIN objects : objects[p] # download_file(last.returned[1])

\* The methods that only ask or hand out URLs and upload ids.
NonCreatingOps ==
    {"get_object_upload_url", "init_multipart_upload", "get_part_upload_url",
     "does_bucket_exist", "does_object_exist", "get_object_download_url"}

\* C28: a step that adds a bucket is a create_bucket that returned normally;
\* a step that adds an object is a copy_object or complete_multipart_upload
\* that returned normally, or the client's POST to an upload URL;
\* get_object_upload_url, init_multipart_upload, get_part_upload_url, the
\* existence queries and get_object_download_url leave buckets and objects as
\* they are, and on a bucket that does not exist they raise or answer False.
C28_NoImplicitCreation ==
    [][/\ ~(buckets' \subseteq buckets)
             => /\ last'.op = "create_bucket"
                /\ last'.result = "ok"
                /\ buckets' = buckets \cup {last'.bucket_id}
       /\ ~(DOMAIN objects' \subseteq DOMAIN objects)
             => /\ last'.op \in {"copy_object", "complete_multipart_upload", "upload_file"}
                /\ last'.result = "ok"
       /\ last'.op \in NonCreatingOps
             => /\ UNCHANGED <<buckets, objects>>
                /\ last'.bucket_id \notin buckets
                      => IF last'.op \in {"does_bucket_exist", "does_object_exist"}
                         THEN last'.result # "ok" \/ last'.returned = <<FALSE>>
                         ELSE last'.result # "ok"
      ]_vars

\* init_multipart_upload was refused in an open session for a bucket that
\* does not exist, and the bucket still does not exist.
C28_Witness ==
    /\ client # None
    /\ last.op = "init_multipart_upload"
    /\ last.bucket_id \in NonExistingBuckets
    /\ last.bucket_id \notin buckets
    /\ last.result = "BucketNotFoundError"
    /\ objects # <<>>

\* The caller, having passed the check, makes its backend call or POST.
C29_Acts(c, where) == pc[c].at = where /\ pc'[c] = Idle

\* C29: a caller whose check passed and whose backend call meets the bucket
\* or the destination object that another caller has created in between gets
\* the error of the check, BucketAlreadyExists or ObjectAlreadyExistsError,
\* and nothing is changed.
C29_LoserGetsErrorOfCheck ==
    [][\A c \in Clients :
          /\ (C29_Acts(c, "create_bucket") /\ pc[c].bucket_id \in buckets)
                => last'.result = "BucketAlreadyExists" /\ UNCHANGED backend
          /\ (C29_Acts(c, "copy_object")
                  /\ <<pc[c].returned[1], pc[c].returned[2]>> \in DOMAIN objects)
                => last'.result = "ObjectAlreadyExistsError" /\ UNCHANGED backend
          /\ (C29_Acts(c, "upload")
                  /\ <<pc[c].bucket_id, pc[c].object_id>> \in DOMAIN objects)
                => last'.result = "ObjectAlreadyExistsError" /\ UNCHANGED backend
      ]_vars

\* What the loser gets: for the bucket the translation of the answer of the
\* backend, BucketAlreadyExists or BucketError, and no change; for the copy
\* and the POST a normal return, the object of the other caller replaced.
C29_LoserGetsBucketErrorOrOverwrites ==
    [][\A c \in Clients :
          /\ (C29_Acts(c, "create_bucket") /\ pc[c].bucket_id \in buckets)
                => /\ last'.result \in {"BucketAlreadyExists", "BucketError"}
                   /\ UNCHANGED backend
          /\ (C29_Acts(c, "copy_object")
                  /\ <<pc[c].returned[1], pc[c].returned[2]>> \in DOMAIN objects)
                => /\ last'.result = "ok"
                   /\ objects'[<<pc[c].returned[1], pc[c].returned[2]>>]
                         = objects[<<pc[c].bucket_id, pc[c].object_id>>]
          /\ (C29_Acts(c, "upload")
                  /\ <<pc[c].bucket_id, pc[c].object_id>> \in DOMAIN objects)
                => last'.result = "ok"
      ]_vars

\* create_bucket raised BucketError for a bucket that exists.
C29_BucketErrorForLoser ==
    /\ last.op = "create_bucket"
    /\ last.result = "BucketError"
    /\ last.bucket_id \in buckets
    /\ last.calls = <<"list_buckets", "create_bucket">>

\* Calls that have left the backend as it was: the queries and URL getters,
\* and the changing methods when they raised.
C30_LeftBackend(call) ==
    \/ call.op \in {"does_bucket_exist", "does_object_exist", "get_object_upload_url",
                    "get_object_download_url", "get_part_upload_url"}
    \/ /\ call.op \in {"create_bucket", "delete_bucket", "copy_object", "delete_object",
                        "init_multipart_upload"}
       /\ call.result # "ok"

C30_LeftBackendUnchanged == [][C30_LeftBackend(last') => UNCHANGED backend]_vars

\* The same method with the same arguments.
C30_SameCall(a, b) ==
    /\ a.op = b.op
    /\ a.upload_id = b.upload_id
    /\ a.bucket_id = b.bucket_id
    /\ a.object_id = b.object_id
    /\ a.args = b.args
    /\ a.anticipated = b.anticipated

\* A Port method is called as in the call before, through either adapter,
\* on the backend state of that call.
C30_Repeated ==
    /\ last'.op \in PortOps
    /\ C30_LeftBackend(last)
    /\ C30_SameCall(last, last')

\* C30: the outcome of a Port method is a function of its arguments, of
\* whether the session of the adapter is open, and of the backend state: a
\* call repeated on the same backend state, through the same or the other
\* adapter, both adapters open or both not open, has the outcome of the
\* first.
C30_OutcomeOfArgumentsSessionAndBackend ==
    [][(C30_Repeated /\ (client = None) = (standby.client = None)) => last' = last]_vars

\* The outcome is a function of the arguments, of _client and _resource of
\* the adapter, and of the backend state.
C30_OutcomeOfArgumentsClientResourceAndBackend ==
    [][(C30_Repeated /\ client = standby.client /\ resource = standby.resource)
          => last' = last]_vars

\* Between two open adapters the outcome is the same.
C30_SameOutcomeThroughOpenAdapters ==
    [][(C30_Repeated /\ client # None /\ standby.client # None) => last' = last]_vars

\* The adapter in use has never been entered and an upload is in progress:
\* it was initiated through the other adapter.
C30_UploadOfOtherAdapter ==
    /\ ActiveUploadIds # {}
    /\ client = None
    /\ resource = None
    /\ standby.client # None

\* delete_bucket raised a validation error through an adapter that has been
\* left, next to an adapter that has never been entered.
C30_ValidatedByLeftAdapter ==
    /\ last.op = "delete_bucket"
    /\ last.result = "BucketIdValidationError"
    /\ client = None
    /\ standby = ConstructedAdapter

\* The sizes of the parts stored for an upload, in ascending part number.
C31_UploadedParts(upload_id) ==
    LET ps == uploads[upload_id].Parts
        ns == SortedSeq(DOMAIN ps)
    IN  [i \in 1..Len(ns) |-> ps[ns[i]]]

C31_Completes ==
    /\ last'.op = "complete_multipart_upload"
    /\ last'.result = "ok"

\* C31: a complete_multipart_upload that returns normally has made the
\* backend completion call, and the object it leaves is the concatenation of
\* the parts uploaded for the upload, every one of them, in ascending part
\* number.
C31_ObjectOfUploadedParts ==
    [][C31_Completes
          => /\ last'.calls = <<"list_multipart_uploads", "list_parts",
                                "complete_multipart_upload">>
             /\ objects'[<<last'.bucket_id, last'.object_id>>]
                   = C31_UploadedParts(last'.upload_id)]_vars

\* The object is the concatenation of the parts of the inventory, which are
\* the first ListPartsPage of the uploaded parts.
C31_ObjectOfInventory ==
    [][C31_Completes
          => LET parts == C31_UploadedParts(last'.upload_id) IN
             objects'[<<last'.bucket_id, last'.object_id>>]
                = IF Len(parts) > ListPartsPage
                  THEN SubSeq(parts, 1, ListPartsPage) ELSE parts]_vars

\* multipart_upload_file has returned and the object is shorter than the file.
C31_ObjectShorterThanFile ==
    /\ last.op = "complete_multipart_upload"
    /\ last.result = "ok"
    /\ pc["c1"].at = "multipart_upload_file"
    /\ Len(objects[<<"b1", "o1">>]) = ListPartsPage
    /\ UploadFileSize > ListPartsPage * UploadPartSize

\* The rules in the order of the claim, 0 when none is violated: 1 zero
\* parts, 2 a part count other than the anticipated quantity, 3 the first of
\* several parts other than the anticipated size, 4 the last part larger than
\* the anticipated size, 5 the last part larger than the first, 6 an interior
\* part other than the first.
C32_FirstViolatedRule(sizes, q, s) ==
    IF Len(sizes) = 0 THEN 1
    ELSE IF q # <<>> /\ Len(sizes) # q[1] THEN 2
    ELSE IF s # <<>> /\ Len(sizes) > 1 /\ sizes[1] # s[1] THEN 3
    ELSE IF s # <<>> /\ sizes[Len(sizes)] > s[1] THEN 4
    ELSE IF sizes[Len(sizes)] > sizes[1] THEN 5
    ELSE IF \E i \in 2..(Len(sizes) - 1) : sizes[i] # sizes[1] THEN 6
    ELSE 0

\* The same with rule 3 as the code has it: only with an anticipated quantity
\* above one.
C32_FirstViolatedRuleOfCode(sizes, q, s) ==
    IF Len(sizes) = 0 THEN 1
    ELSE IF q # <<>> /\ Len(sizes) # q[1] THEN 2
    ELSE IF s # <<>> /\ q # <<>> /\ q[1] > 1 /\ sizes[1] # s[1] THEN 3
    ELSE IF s # <<>> /\ sizes[Len(sizes)] > s[1] THEN 4
    ELSE IF sizes[Len(sizes)] > sizes[1] THEN 5
    ELSE IF \E i \in 2..(Len(sizes) - 1) : sizes[i] # sizes[1] THEN 6
    ELSE 0

C32_RuleOfReason(reason) ==
    CASE reason = "Zero parts received." -> 1
      [] reason = "Found a part quantity other than expected." -> 2
      [] reason = "The first part has a size other than expected." -> 3
      [] reason = "The last part is larger than the anticipated size." -> 4
      [] reason = "The last part is larger than the first part." -> 5
      [] reason = "A part has a size different from the first part." -> 6
      [] OTHER -> 0

C32_Rejects ==
    /\ last'.op = "complete_multipart_upload"
    /\ last'.result = "MultiPartUploadConfirmError"

\* C32: the reason of a rejected inventory is the reason of the first rule,
\* in the order of the claim, that the inventory violates.
C32_ReasonOfFirstViolatedRule ==
    [][C32_Rejects
          => C32_RuleOfReason(last'.reason)
                = C32_FirstViolatedRule(PartSizes(1), last'.anticipated[1],
                                        last'.anticipated[2])]_vars

\* The reason is that of the first violated rule when rule 3 is taken as the
\* code has it.
C32_ReasonOfFirstViolatedRuleOfCode ==
    [][C32_Rejects
          => C32_RuleOfReason(last'.reason)
                = C32_FirstViolatedRuleOfCode(PartSizes(1), last'.anticipated[1],
                                              last'.anticipated[2])]_vars

\* Inventories of consecutive parts of the sizes given.
C32_Inventories ==
    UNION {[1..n -> CheckSizes] : n \in 0..MaxCheckParts}

C32_PartsOf(sizes) ==
    [i \in 1..Len(sizes) |-> [PartNumber |-> i, Size |-> sizes[i], ETag |-> ETagOf(sizes[i])]]

\* The text of the reason of a rejected inventory differs from the text for
\* every inventory rejected by another rule.
C32_ReasonsDistinct ==
    [][C32_Rejects
          => LET Parts == BackendListParts("b1", "o1", 1).Parts
                 q == last'.anticipated[1]
                 s == last'.anticipated[2]
             IN  /\ ConfirmErrorReason(Parts, q, s) # <<>>
                 /\ \A sizes \in C32_Inventories, q2 \in Optional(CheckQuantities),
                       s2 \in Optional(CheckSizes) :
                       C32_FirstViolatedRuleOfCode(sizes, q2, s2)
                             \notin {0, C32_RuleOfReason(last'.reason)}
                          => ConfirmErrorReason(C32_PartsOf(sizes), q2, s2)
                                # ConfirmErrorReason(Parts, q, s)]_vars

\* A rejection for a last part larger than the first, of an inventory whose
\* first part is not of the anticipated size.
C32_LaterRuleReported ==
    /\ last.op = "complete_multipart_upload"
    /\ last.result = "MultiPartUploadConfirmError"
    /\ last.reason = "The last part is larger than the first part."
    /\ last.anticipated[2] # <<>>
    /\ Len(PartSizes(1)) > 1
    /\ PartSizes(1)[1] # last.anticipated[2][1]

\* The first rule an id violates, in the order length, character class,
\* first and last character; None when it violates none. excluded are the
\* characters an id may neither start nor end with.
C33_FirstViolatedRule(id, class, excluded) ==
    IF Len(id) \notin 3..63 THEN "length"
    ELSE IF \E i \in 1..Len(id) : id[i] \notin class THEN "characters"
    ELSE IF id[1] \in excluded \/ id[Len(id)] \in excluded THEN "ends"
    ELSE None

C33_RuleOf(call) ==
    IF call.op = "validate_bucket_id"
    THEN C33_FirstViolatedRule(call.args, LowercaseLetters \cup Digits \cup {"-"}, {"-"})
    ELSE C33_FirstViolatedRule(
             call.args, LowercaseLetters \cup UppercaseLetters \cup Digits \cup {"-", "."},
             {"-", "."})

C33_Raised ==
    /\ last.op \in {"validate_bucket_id", "validate_object_id"}
    /\ last.result # "ok"

\* C33: the reason of the error validate_bucket_id or validate_object_id
\* raises is that of the first rule the id violates, in the order length,
\* character class, first and last character.
C33_ReasonOfFirstViolatedRule == C33_Raised => last.reason = C33_RuleOf(last)

\* The same for the ids that do not end with a newline.
C33_ReasonOfFirstViolatedRuleUnlessNewlineTerminated ==
    (C33_Raised /\ (Len(last.args) = 0 \/ last.args[Len(last.args)] # Newline))
       => last.reason = C33_RuleOf(last)

\* An id of three characters with a newline at its end was refused for the
\* character it starts with.
C33_NewlineNotReported ==
    /\ C33_Raised
    /\ Len(last.args) = 3
    /\ last.args[3] = Newline
    /\ last.reason = "ends"

\* The codes the translator knows, and the error it has for each.
C34_ExactlyMapped ==
    (<<"NoSuch", "Bucket">> :> "BucketNotFoundError")
    @@ (<<"Bucket", "Already", "Exists">> :> "BucketAlreadyExists")
    @@ (<<"NoSuch", "Key">> :> "ObjectNotFoundError")
    @@ (<<"Object", "Already", "In", "Active", "Tier", "Error">>
           :> "ObjectAlreadyExistsError")
    @@ (<<"NoSuch", "Upload">> :> "MultiPartUploadNotFoundError")

C34_Translated == last.op = "_translate_s3_client_errors"

\* C34: for each of the five codes it knows the translator gives the error
\* of the table, whatever the context handed to it.
C34_KnownCodesMapped ==
    (C34_Translated /\ last.args[1] \in DOMAIN C34_ExactlyMapped)
       => last.result = C34_ExactlyMapped[last.args[1]]

\* The same, NoSuchUpload only with an upload id, a bucket id and an object id.
C34_KnownCodesMappedWithContext ==
    (/\ C34_Translated
     /\ last.args[1] \in DOMAIN C34_ExactlyMapped
     /\ last.args[1] = <<"NoSuch", "Upload">>
            => last.args[2] # <<>> /\ last.args[3] # <<>> /\ last.args[4] # <<>>)
       => last.result = C34_ExactlyMapped[last.args[1]]

\* NoSuchUpload came with a bucket id and an object id, without an upload id,
\* and the translator raised ValueError.
C34_ValueErrorForNoSuchUpload ==
    /\ C34_Translated
    /\ last.args = <<<<"NoSuch", "Upload">>, <<>>, <<"b1">>, <<"o1">>>>
    /\ last.result = "ValueError"

\* C35: for a code that is none of the five, the translator gives BucketError
\* when the code has the word Bucket, else ObjectError when it has the word
\* Object or Key, else ObjectStorageDaoError, each with the message made of
\* the raw code, whatever the context.
C35_UnknownCodesByKeyword ==
    (C34_Translated /\ last.args[1] \notin DOMAIN C34_ExactlyMapped)
       => /\ last.result =
                IF HasWord(last.args[1], "Bucket") THEN "BucketError"
                ELSE IF HasWord(last.args[1], "Object") \/ HasWord(last.args[1], "Key")
                THEN "ObjectError"
                ELSE "ObjectStorageDaoError"
          /\ last.returned = <<"S3 error with code: '", last.args[1], "'">>

\* A code with the words Object and Bucket, Object first, came out as
\* BucketError.
C35_Witness ==
    /\ C34_Translated
    /\ last.args[1] = <<"Object", "Not", "In", "Bucket">>
    /\ last.result = "BucketError"
    /\ last.returned[2] = last.args[1]

\* The completion call of the caller goes to the backend in this step.
C36_CompletionCall(c) ==
    /\ pc[c].at = "complete"
    /\ pc'[c].at # "complete"

\* C36: whenever the completion call of complete_multipart_upload goes to the
\* backend, the upload it names is the only active upload of its object.
C36_CompletedWhileSoleActiveUpload ==
    [][\A c \in Clients :
          C36_CompletionCall(c)
             => ActiveFor(pc[c].bucket_id, pc[c].object_id) = {pc[c].returned[1]}]_vars

\* When the caller has the answers of its checks, the upload is the only
\* active upload of its object.
C36_CheckedWhileSoleActiveUpload ==
    [][\A c \in Clients :
          (pc[c].at # "complete" /\ pc'[c].at = "complete")
             => ActiveFor(pc'[c].bucket_id, pc'[c].object_id) = {pc'[c].returned[1]}]_vars

\* An upload was completed and another upload of the object is active.
C36_CompletedBesideActiveUpload ==
    /\ last.op = "complete_multipart_upload"
    /\ last.result = "ok"
    /\ ActiveFor(last.bucket_id, last.object_id) # {}
    /\ <<last.bucket_id, last.object_id>> \in DOMAIN objects

C37_Raises ==
    /\ last'.op \in PortOps
    /\ last'.result # "ok"

\* C37: a Port method that raises leaves the buckets, the objects, the
\* uploads and their parts as they were.
C37_RaisingLeavesBackend == [][C37_Raises => UNCHANGED backend]_vars

\* The same for the methods other than abort_multipart_upload, and for
\* delete_bucket when it raises before its backend calls.
C37_RaisingLeavesBackendUnlessAbortOrDelete ==
    [][(/\ C37_Raises
        /\ last'.op # "abort_multipart_upload"
        /\ last'.op = "delete_bucket" => "delete_bucket" \notin SeqToSet(last'.calls))
          => UNCHANGED backend]_vars

\* abort_multipart_upload raised for the other uploads of the object and the
\* upload it names is aborted.
C37_AbortedAndRaised ==
    /\ last.op = "abort_multipart_upload"
    /\ last.result = "MultipleActiveUploadsError"
    /\ uploads[last.upload_id].State = "aborted"

\* delete_bucket with delete_content raised and the bucket is there without
\* the object it had.
C37_ContentDeletedAndRaised ==
    /\ last.op = "delete_bucket"
    /\ last.args = <<TRUE>>
    /\ last.result # "ok"
    /\ "delete_objects" \in SeqToSet(last.calls)
    /\ last.bucket_id \in buckets
    /\ ObjectsOf(last.bucket_id) = {}

\* The parts a file of UploadFileSize bytes falls into when read part_size
\* bytes at a time: their count, and the size of each.
C38_PartCount == (UploadFileSize + UploadPartSize - 1) \div UploadPartSize

C38_PartsOfFile(ps) ==
    /\ DOMAIN ps = 1..C38_PartCount
    /\ C38_PartCount <= MAX_FILE_PART_NUMBER
    /\ \A i \in DOMAIN ps :
          ps[i] = IF i < C38_PartCount THEN UploadPartSize
                  ELSE UploadFileSize - (C38_PartCount - 1) * UploadPartSize

C38_Step(object) ==
    /\ last'.op = "check_part_size"
          => (last'.result = "ok" <=>
                UploadFileSize <= MAX_FILE_PART_NUMBER * UploadPartSize)
    /\ last'.op = "upload_part"
          => /\ last'.result = "ok"
             /\ DOMAIN uploads'[1].Parts
                   = 1..(Cardinality(DOMAIN uploads[1].Parts) + 1)
             /\ Cardinality(DOMAIN uploads'[1].Parts) <= MAX_FILE_PART_NUMBER
    /\ last'.op = "complete_multipart_upload"
          => IF UploadFileSize = 0
             THEN /\ DOMAIN uploads[1].Parts = {}
                  /\ last'.result = "MultiPartUploadConfirmError"
             ELSE /\ C38_PartsOfFile(uploads[1].Parts)
                  /\ last'.result = "ok"
                  /\ objects'[<<"b1", "o1">>] = object

C38_UploadsFirstPartsOfFile ==
    [][C38_Step([i \in 1..(IF C38_PartCount > ListPartsPage
                           THEN ListPartsPage ELSE C38_PartCount)
                   |-> uploads[1].Parts[i]])]_vars

\* Every part of the file was uploaded, the completion returned, and the
\* object has fewer bytes than the file.
C38_BytesLeftOut ==
    /\ last.op = "complete_multipart_upload"
    /\ last.result = "ok"
    /\ C38_PartCount <= MAX_FILE_PART_NUMBER
    /\ Len(objects[<<"b1", "o1">>]) < C38_PartCount
    /\ Len(objects[<<"b1", "o1">>]) * UploadPartSize < UploadFileSize

\* The completion raised for the empty file.
C38_EmptyFileRefused ==
    /\ UploadFileSize = 0
    /\ last.op = "complete_multipart_upload"
    /\ last.result = "MultiPartUploadConfirmError"

C39_Answered ==
    /\ last.op = "does_object_exist"
    /\ last.result = "ok"

C39_Exists ==
    /\ last.bucket_id \in buckets
    /\ <<last.bucket_id, last.object_id>> \in DOMAIN objects

\* C39: does_object_exist with valid ids in an open session raises neither
\* a bucket nor an object error and returns whether the object is in the
\* bucket: False for a missing object and for a missing bucket.  The method
\* leaves the backend as it is, so the state after the call is the one it
\* answered about.
C39_ReturnsWhetherObjectExists ==
    /\ last.op = "does_object_exist"
          => last.result \in {"ok", "OutOfContextError", "BucketIdValidationError",
                              "ObjectIdValidationError"}
    /\ C39_Answered => last.returned = <<C39_Exists>>

\* The same where head_object fails for a missing object or bucket only;
\* with any failure of head_object, True is returned for existing objects
\* only.
C39_ReturnsWhetherHeadObjectAnswers ==
    /\ last.op = "does_object_exist"
          => last.result \in {"ok", "OutOfContextError", "BucketIdValidationError",
                              "ObjectIdValidationError"}
    /\ C39_Answered /\ last.returned = <<TRUE>> => C39_Exists

\* False is returned for an object that is in the bucket.
C39_ExistingObjectReportedMissing ==
    /\ last.op = "does_object_exist"
    /\ last.result = "ok"
    /\ last.calls = <<"head_object">>
    /\ last.returned = <<FALSE>>
    /\ last.bucket_id \in buckets
    /\ <<last.bucket_id, last.object_id>> \in DOMAIN objects

\* False is returned for a bucket that does not exist.
C39_MissingBucketReportedFalse ==
    /\ last.op = "does_object_exist"
    /\ last.result = "ok"
    /\ last.returned = <<FALSE>>
    /\ last.bucket_id \notin buckets

C40_Settlements(delivery) == SelectSeq(delivery.calls, IsSettlement)

C40_Executed(delivery) ==
    \E i \in 1..Len(delivery.calls) : delivery.calls[i] = exec_on_message

\* C40: the callback settles every delivered message exactly once, with
\* basic_ack or with basic_nack; a message that fails the validation against
\* the schema is nacked and not passed to exec_on_message; a message for
\* which exec_on_message raises MaxAttemptsReached or ValueError is nacked
\* without requeue.
C40_SettledExactlyOnce ==
    \A i \in 1..Len(channel.delivered) :
        LET delivery == channel.delivered[i]
            message == delivery.message
        IN  /\ Len(C40_Settlements(delivery)) = 1
            /\ (/\ channel.json_schema # <<>>
                /\ message.json
                /\ ~message.valid)
                  => /\ C40_Settlements(delivery)[1].method = "basic_nack"
                     /\ ~C40_Executed(delivery)
            /\ (/\ C40_Executed(delivery)
                /\ message.outcome \in {"MaxAttemptsReached", "ValueError"})
                  => C40_Settlements(delivery)[1] = basic_nack(FALSE)

\* What the callback does: a body that is not JSON is not settled; a payload
\* that fails the validation is nacked without requeue and passed to
\* exec_on_message all the same; after exec_on_message the message is acked
\* when it returned, nacked without requeue when it raised
\* MaxAttemptsReached or ValueError, and not settled for another exception.
C40_SettledAfterValidationAndAfterExec ==
    \A i \in 1..Len(channel.delivered) :
        LET delivery == channel.delivered[i]
            message == delivery.message
            invalid == channel.json_schema # <<>> /\ ~message.valid
        IN  IF ~message.json
            THEN C40_Settlements(delivery) = <<>> /\ ~C40_Executed(delivery)
            ELSE /\ C40_Executed(delivery)
                 /\ C40_Settlements(delivery)
                       = (IF invalid THEN <<basic_nack(FALSE)>> ELSE <<>>)
                         \o (IF message.outcome = "ok" THEN <<basic_ack>>
                             ELSE IF message.outcome = "KeyError" THEN <<>>
                             ELSE <<basic_nack(FALSE)>>)

\* A message that failed the validation was nacked, passed to
\* exec_on_message and acked.
C40_SettledTwice ==
    \E i \in 1..Len(channel.delivered) :
        /\ channel.json_schema # <<>>
        /\ ~channel.delivered[i].message.valid
        /\ C40_Executed(channel.delivered[i])
        /\ C40_Settlements(channel.delivered[i]) = <<basic_nack(FALSE), basic_ack>>

\* A message was delivered and neither acked nor nacked.
C40_NotSettled ==
    \E i \in 1..Len(channel.delivered) :
        /\ channel.delivered[i].message.json
        /\ C40_Settlements(channel.delivered[i]) = <<>>

====
